---- MODULE Spec2Model ----
(***************************************************************************)
(* Model of the advanced-video-generator pipeline: the script segmenter    *)
(* (script_processor.py), the speech-synthesis coordinator                 *)
(* (tts_generator.py) and the orchestrator's generate_from_script          *)
(* (main.py).                                                              *)
(*                                                                         *)
(* Text is a sequence of one-character strings.  Durations are whole       *)
(* seconds: the words-per-minute values of the model divide 60, so that    *)
(* word_count / words_per_minute * 60 is computed exactly.                 *)
(***************************************************************************)
EXTENDS Integers, Sequences, FiniteSets, TLC

VARIABLES
    config,             \* configuration the components were constructed with
    engine_ok,          \* environment: whether each synthesis backend succeeds
    tts_cache,          \* cache directory of the TTS engines: the cached files,
                        \* each a cache key with the audio stored under it
    script_text,        \* argument script_text
    max_chunk_duration, \* argument max_chunk_duration / options.chunk_duration
    scenes,             \* scenes built by _create_scenes (argument of _create_chunks)
    chunks,             \* value returned by parse_script / _create_chunks
    audio_files,        \* audio_files of generate_from_script: indices of chunks
    stage,              \* position of the running call
    failed_stage,       \* stage in which the pending / handled exception was raised
    error,              \* pending exception: [type, message]
    result,             \* dictionary returned by generate_from_script
    calls,              \* number of backend invocations, per backend
    fallbacks,          \* self.config.get('fallback_engines', ...) of the TTSGenerator
    n_calls,            \* number of direct calls made to the component so far
    this_call,          \* the latest direct call: its arguments and what it did
    prev_call,          \* the direct call before the latest
    pipeline,           \* self._pipeline of the ImageGenerator: "None" or "Loaded"
    pipeline_load,      \* environment: what loading the image model does
    options,            \* argument options of generate_from_script
    backends,           \* environment: which operations on images, videos and
                        \* the cloud succeed
    stats,              \* self.stats of the AdvancedVideoGenerator
    temp_dir            \* the directory config['project']['temp_dir']

vars == <<config, engine_ok, tts_cache, script_text, max_chunk_duration, scenes,
          chunks, audio_files, stage, failed_stage, error, result, calls,
          fallbacks, n_calls, this_call, prev_call, pipeline, pipeline_load,
          options, backends, stats, temp_dir>>

\* what a call is made with and works in, and the statistics and the temp
\* directory it may update
run_vars == <<options, backends, stats, temp_dir>>

\* the variables of the direct calls to TTSGenerator and ImageGenerator
call_vars == <<fallbacks, n_calls, this_call, prev_call, pipeline, pipeline_load>>

----------------------------------------------------------------------------
(* Bounds of the model *)

\* longest script handed to generate_from_script
MaxScriptLen == 3
\* longest script handed directly to parse_script
MaxTextLen == 5
\* longest scene sequence handed directly to _create_chunks
MaxScenes == 4
\* most direct calls made to one TTSGenerator
MaxSpeechCalls == 2
\* largest num_attempts handed to generate_image
MaxAttempts == 2
\* longest prompt list handed to batch_generate
MaxPrompts == 3
\* largest scene duration handed directly to _create_chunks
MaxSceneDuration == 3
\* longest image list handed directly to create_slideshow
MaxImages == 2
\* most video chunk files handed directly to _merge_video_chunks
MaxVideoChunks == 3
\* most direct calls of the statistics methods on one generator
MaxStatisticsCalls == 2

MaxWords == 3

MaxSubtitleTextLen == 62
\* largest max_duration handed directly to _create_chunks
MaxChunkBound == 5

----------------------------------------------------------------------------
(* Text *)

\* one word character, two whitespace characters, one punctuation mark of
\* the allow-list, one character outside the allow-list
Alphabet == {"a", " ", "\n", ".", "#"}

Whitespace == {" ", "\n"}

TextsUpTo(n) == UNION {[1..k -> Alphabet] : k \in 0..n}

Max2(a, b) == IF a >= b THEN a ELSE b

Min2(a, b) == IF a <= b THEN a ELSE b

SetMax(S) == CHOOSE m \in S : \A x \in S : x <= m

RECURSIVE LStrip(_)
LStrip(s) ==
    IF s # <<>> /\ Head(s) \in Whitespace THEN LStrip(Tail(s)) ELSE s

RECURSIVE RStrip(_)
RStrip(s) ==
    IF s # <<>> /\ s[Len(s)] \in Whitespace
    THEN RStrip(SubSeq(s, 1, Len(s) - 1))
    ELSE s

\* str.strip()
Strip(s) == RStrip(LStrip(s))

\* re.sub(r'\s+', ' ', text): every maximal whitespace run becomes one space
RECURSIVE CollapseWhitespace(_)
CollapseWhitespace(s) ==
    IF s = <<>> THEN <<>>
    ELSE IF Head(s) \in Whitespace
         THEN <<" ">> \o CollapseWhitespace(LStrip(Tail(s)))
         ELSE <<Head(s)>> \o CollapseWhitespace(Tail(s))

\* characters matched by [\w\s.,!?;:'"-]
AllowedChars == {"a", " ", "\n", "."}

\* re.sub(r'[^\w\s.,!?;:\'"-]', '', text)
RemoveSpecial(s) == SelectSeq(s, LAMBDA c : c \in AllowedChars)

\* str.split(): the maximal runs of non-whitespace characters
RECURSIVE SplitWords(_, _)
SplitWords(s, word) ==
    LET done == IF word = <<>> THEN <<>> ELSE <<word>>
    IN  IF s = <<>> THEN done
        ELSE IF Head(s) \in Whitespace
             THEN done \o SplitWords(Tail(s), <<>>)
             ELSE SplitWords(Tail(s), Append(word, Head(s)))

Words(s) == SplitWords(s, <<>>)

\* ' '.join(words)
RECURSIVE JoinWords(_)
JoinWords(ws) ==
    IF ws = <<>> THEN <<>>
    ELSE IF Len(ws) = 1 THEN ws[1]
         ELSE ws[1] \o <<" ">> \o JoinWords(Tail(ws))

\* s[:n]
Prefix(s, n) == SubSeq(s, 1, Min2(n, Len(s)))

----------------------------------------------------------------------------
(* ScriptProcessor *)

_clean_script(text) == Strip(RemoveSpecial(CollapseWhitespace(text)))

\* last index of the maximal whitespace run that follows position i
WhitespaceRunEnd(s, i) ==
    SetMax({r \in i..Len(s) : \A k \in (i + 1)..r : s[k] \in Whitespace})

\* end of the match of \n\s*\n|\n that starts at the newline s[i]: the first
\* alternative is tried first and \s* is greedy, so the match runs up to the
\* last newline of the whitespace run; without one it is the single newline
MatchEnd(s, i) ==
    LET nl == {j \in (i + 1)..WhitespaceRunEnd(s, i) : s[j] = "\n"}
    IN  IF nl = {} THEN i ELSE SetMax(nl)

RECURSIVE ReSplitFrom(_, _, _)
ReSplitFrom(s, i, piece) ==
    IF i > Len(s) THEN <<piece>>
    ELSE IF s[i] = "\n"
         THEN <<piece>> \o ReSplitFrom(s, MatchEnd(s, i) + 1, <<>>)
         ELSE ReSplitFrom(s, i + 1, Append(piece, s[i]))

\* re.split(r'\n\s*\n|\n', text)
ReSplit(s) == ReSplitFrom(s, 1, <<>>)

RECURSIVE StripAll(_)
StripAll(ps) ==
    IF ps = <<>> THEN <<>> ELSE <<Strip(Head(ps))>> \o StripAll(Tail(ps))

\* a plausible slip: the empty paragraphs are kept
SplitParagraphsKeepingEmpty(text) == StripAll(ReSplit(text))

RECURSIVE SplitSentencesFrom(_, _)
SplitSentencesFrom(s, piece) ==
    IF s = <<>> THEN <<piece>>
    ELSE IF Head(s) = "."
         THEN <<Append(piece, ".")>> \o SplitSentencesFrom(Tail(s), <<>>)
         ELSE SplitSentencesFrom(Tail(s), Append(piece, Head(s)))

\* a plausible variant: paragraphs are cut after every period as well
SplitParagraphsAtPeriods(text) ==
    SelectSeq(StripAll(SplitSentencesFrom(text, <<>>)), LAMBDA p : p # <<>>)

_split_paragraphs(text) ==
    SelectSeq(StripAll(ReSplit(text)), LAMBDA p : p # <<>>)

\* the stop words that can be spelled in the model's alphabet
skip_words == {<<"a">>}

MaxPromptWords == 10

PromptFallbackChars == 50

\* the loop of _generate_image_prompt: the first MaxPromptWords words that
\* are no stop words
RECURSIVE MeaningfulWords(_, _)
MeaningfulWords(words, meaningful_words) ==
    IF words = <<>> THEN meaningful_words
    ELSE LET m == IF Head(words) \notin skip_words
                  THEN Append(meaningful_words, Head(words))
                  ELSE meaningful_words
         IN  IF Len(m) >= MaxPromptWords THEN m
             ELSE MeaningfulWords(Tail(words), m)

_generate_image_prompt(text) ==
    LET prompt == JoinWords(MeaningfulWords(Words(text), <<>>))
    IN  IF prompt # <<>> THEN prompt ELSE Prefix(text, PromptFallbackChars)

SecondsPerMinute == 60

\* a plausible slip: the two clamp limits are exchanged
SceneDurationSwapped(word_count, cfg) ==
    Min2(cfg.min_scene_duration,
         Max2((word_count * SecondsPerMinute) \div cfg.words_per_minute,
              cfg.max_scene_duration))

\* duration of a scene: (word_count / words_per_minute) * 60, clamped
SceneDuration(word_count, cfg) ==
    Max2(cfg.min_scene_duration,
         Min2((word_count * SecondsPerMinute) \div cfg.words_per_minute,
              cfg.max_scene_duration))

\* the division of _create_scenes raises for the first paragraph when
\* words_per_minute is 0
CreateScenesRaises(paragraphs, cfg) ==
    paragraphs # <<>> /\ cfg.words_per_minute = 0

RECURSIVE _create_scenes(_, _)
_create_scenes(paragraphs, cfg) ==
    IF paragraphs = <<>> THEN <<>>
    ELSE <<[text |-> Head(paragraphs),
            duration |-> SceneDuration(Len(Words(Head(paragraphs))), cfg),
            image_prompt |-> _generate_image_prompt(Head(paragraphs))]>>
         \o _create_scenes(Tail(paragraphs), cfg)

EmptyChunk == [scenes |-> <<>>, total_duration |-> 0]

\* a plausible slip: the running total is tested before the scene is added
ChunkStepNoLookahead(st, scene, max_duration) ==
    LET exceeds == st.current_chunk.total_duration > max_duration
        closed  == IF exceeds /\ st.current_chunk.scenes # <<>>
                   THEN Append(st.chunks, st.current_chunk)
                   ELSE st.chunks
        cur     == IF exceeds THEN EmptyChunk ELSE st.current_chunk
    IN  [chunks |-> closed,
         current_chunk |->
             [scenes |-> Append(cur.scenes, scene),
              total_duration |-> cur.total_duration + scene.duration]]

\* a plausible slip: a new chunk starts with the old running total
ChunkStepStaleTotal(st, scene, max_duration) ==
    LET exceeds == st.current_chunk.total_duration + scene.duration > max_duration
        closed  == IF exceeds /\ st.current_chunk.scenes # <<>>
                   THEN Append(st.chunks, st.current_chunk)
                   ELSE st.chunks
        cur     == IF exceeds
                   THEN [st.current_chunk EXCEPT !.scenes = <<>>]
                   ELSE st.current_chunk
    IN  [chunks |-> closed,
         current_chunk |->
             [scenes |-> Append(cur.scenes, scene),
              total_duration |-> cur.total_duration + scene.duration]]

\* a plausible slip: every scene but the first starts a new chunk
ChunkStepOnePerScene(st, scene, max_duration) ==
    LET closed == IF st.current_chunk.scenes # <<>>
                  THEN Append(st.chunks, st.current_chunk)
                  ELSE st.chunks
    IN  [chunks |-> closed,
         current_chunk |-> [scenes |-> <<scene>>,
                            total_duration |-> scene.duration]]

\* one iteration of the loop of _create_chunks; st = [chunks, current_chunk]
ChunkStep(st, scene, max_duration) ==
    LET exceeds == st.current_chunk.total_duration + scene.duration > max_duration
        closed  == IF exceeds /\ st.current_chunk.scenes # <<>>
                   THEN Append(st.chunks, st.current_chunk)
                   ELSE st.chunks
        cur     == IF exceeds THEN EmptyChunk ELSE st.current_chunk
    IN  [chunks |-> closed,
         current_chunk |->
             [scenes |-> Append(cur.scenes, scene),
              total_duration |-> cur.total_duration + scene.duration]]

RECURSIVE ChunkLoop(_, _, _)
ChunkLoop(st, rest, max_duration) ==
    IF rest = <<>> THEN st
    ELSE ChunkLoop(ChunkStep(st, Head(rest), max_duration), Tail(rest), max_duration)

\* a plausible slip: the chunk still open after the loop is not added
CreateChunksDroppingLast(scene_list, max_duration) ==
    ChunkLoop([chunks |-> <<>>, current_chunk |-> EmptyChunk],
              scene_list, max_duration).chunks

_create_chunks(scene_list, max_duration) ==
    LET st == ChunkLoop([chunks |-> <<>>, current_chunk |-> EmptyChunk],
                        scene_list, max_duration)
    IN  IF st.current_chunk.scenes # <<>>
        THEN Append(st.chunks, st.current_chunk)
        ELSE st.chunks

\* parse_script without its logging; callers test ParseScriptRaises first
ParseScenes(text, cfg) == _create_scenes(_split_paragraphs(_clean_script(text)), cfg)

ParseScriptRaises(text, cfg) ==
    CreateScenesRaises(_split_paragraphs(_clean_script(text)), cfg)

parse_script(text, max_duration, cfg) ==
    _create_chunks(ParseScenes(text, cfg), max_duration)

----------------------------------------------------------------------------
(* TTSGenerator *)

\* keys of TTSGenerator.engines
Engines == {"google", "edge", "coqui", "pyttsx3"}

\* default of self.config.get('fallback_engines', ...)
fallback_engines == <<"google", "edge", "pyttsx3">>

\* the one TTSConfig object shared by all four engine objects
TTSConfig == [engine |-> "google", language |-> "en-US", rate |-> 1]

\* TTSBase.get_cache_key: text, config.engine, config.language, config.rate;
\* config is the shared TTSConfig, whichever engine object is asked
get_cache_key(engine_name, text) ==
    [text |-> text, engine |-> TTSConfig.engine,
     language |-> TTSConfig.language, rate |-> TTSConfig.rate]

\* the file an engine writes for a text, and no file
Artifact(text, engine_name) == [text |-> text, engine |-> engine_name]

NoArtifact == [text |-> <<>>, engine |-> "None"]

\* the content of the cache file named by a key, NoArtifact if there is none
CacheFile(cache, key) ==
    IF \E f \in cache : f.key = key
    THEN (CHOOSE f \in cache : f.key = key).artifact
    ELSE NoArtifact

\* TTSBase.get_cached_file of the engine object engine_name
get_cached_file(cache, engine_name, text) ==
    CacheFile(cache, get_cache_key(engine_name, text))

\* TTSGenerator._get_cached: None for a name self.engines does not hold
_get_cached(cache, text, engine) ==
    IF engine \in Engines THEN get_cached_file(cache, engine, text) ELSE NoArtifact

\* a plausible slip: the result is never copied into the cache
CacheResultSkipped(cache, text, engine, artifact) == cache

\* TTSGenerator._cache_result: shutil.copy onto the cache file of the key,
\* replacing what was there
_cache_result(cache, text, engine, artifact) ==
    IF engine \in Engines
    THEN {f \in cache : f.key # get_cache_key(engine, text)}
         \cup {[key |-> get_cache_key(engine, text), artifact |-> artifact]}
    ELSE cache

\* a plausible slip: the fallback loop does not skip the preferred engine
EngineOrderNotSkippingPreferred(engine) ==
    (IF engine \in Engines THEN <<engine>> ELSE <<>>)
    \o SelectSeq(fallbacks, LAMBDA f : f \in Engines)

\* engines in the order generate_speech tries them
EngineOrder(engine) ==
    (IF engine \in Engines THEN <<engine>> ELSE <<>>)
    \o SelectSeq(fallbacks, LAMBDA f : f # engine /\ f \in Engines)

\* the engines invoked: every engine of the order up to the first that succeeds
RECURSIVE TryEngines(_, _)
TryEngines(order, ok) ==
    IF order = <<>> THEN <<>>
    ELSE IF ok[Head(order)] THEN <<Head(order)>>
         ELSE <<Head(order)>> \o TryEngines(Tail(order), ok)

\* a plausible slip: "if not text" in place of "if not text.strip()"
IsEmptyText(text) == text = <<>>

\* not text.strip()
IsBlankText(text) == Strip(text) = <<>>

\* engine or self.config.get('tts_engine', 'google')
ResolveEngine(engine) == IF engine = "None" THEN TTSConfig.engine ELSE engine

\* whether generate_speech looks into the cache directory: only past the
\* test for blank text, with use_cache, and for a key of self.engines
CacheConsulted(text, engine, use_cache) ==
    ~IsBlankText(text) /\ use_cache /\ ResolveEngine(engine) \in Engines

\* a plausible slip: the last statement of generate_speech returns True
ExhaustedReturnsTrue(cache, invoked) ==
    [success |-> TRUE, cache |-> cache, invoked |-> invoked,
     output |-> NoArtifact, cache_hit |-> FALSE]

\* the last two statements of generate_speech: every engine tried has failed
AllEnginesFailed(cache, invoked) ==
    [success |-> FALSE, cache |-> cache, invoked |-> invoked,
     output |-> NoArtifact, cache_hit |-> FALSE]

\* generate_speech; engine is "None" when the argument is omitted.  The
\* result holds the returned value, the cache directory afterwards, the
\* engines invoked in order, the file written to output_file (NoArtifact
\* when none was written) and whether it was copied from the cache.
generate_speech(text, engine, use_cache, cache, ok) ==
    IF IsBlankText(text)
    THEN [success |-> FALSE, cache |-> cache, invoked |-> <<>>,
          output |-> NoArtifact, cache_hit |-> FALSE]
    ELSE IF use_cache
            /\ _get_cached(cache, text, ResolveEngine(engine)) # NoArtifact
         THEN [success |-> TRUE, cache |-> cache, invoked |-> <<>>,
               output |-> _get_cached(cache, text, ResolveEngine(engine)),
               cache_hit |-> TRUE]
         ELSE LET invoked == TryEngines(EngineOrder(ResolveEngine(engine)), ok)
                  last == invoked[Len(invoked)]
              IN  IF invoked # <<>> /\ ok[last]
                  THEN [success |-> TRUE,
                        cache |-> _cache_result(cache, text, last,
                                                Artifact(text, last)),
                        invoked |-> invoked,
                        output |-> Artifact(text, last),
                        cache_hit |-> FALSE]
                  ELSE AllEnginesFailed(cache, invoked)

\* parameters generate_speech accepts
GenerateSpeechParameters == {"text", "output_file", "engine", "use_cache"}

----------------------------------------------------------------------------
(* AdvancedVideoGenerator *)

\* GenerationOptions.voice_engine
voice_engine == "google"

\* keyword arguments of the generate_speech call in _generate_audio_for_chunks
AudioCallKeywords == {"text", "output_file", "engine", "language", "rate"}

NoError == [type |-> "None", message |-> ""]

\* what evaluating and binding the arguments of that call raises: the
\* subscript self.config['text_to_speech'] on a configuration without that
\* section, else the keywords generate_speech does not accept
AudioCallRaises(cfg) ==
    IF ~cfg.has_text_to_speech
    THEN [type |-> "KeyError", message |-> "'text_to_speech'"]
    ELSE IF ~(AudioCallKeywords \subseteq GenerateSpeechParameters)
         THEN [type |-> "TypeError",
               message |->
                   "TTSGenerator.generate_speech() got an unexpected keyword argument 'language'"]
         ELSE NoError

\* " ".join([s['text'] for s in chunk['scenes']])
ChunkText(chunk) == JoinWords([i \in 1..Len(chunk.scenes) |-> chunk.scenes[i].text])

\* the loop of _generate_audio_for_chunks from chunk i on;
\* st = [raised, audio_files, cache, tts_calls], audio files named by chunk index
RECURSIVE AudioLoop(_, _, _, _, _)
AudioLoop(i, chs, st, cfg, ok) ==
    IF i > Len(chs) THEN st
    ELSE IF AudioCallRaises(cfg) # NoError
         THEN [st EXCEPT !.raised = AudioCallRaises(cfg)]
         ELSE LET r == generate_speech(ChunkText(chs[i]), voice_engine, TRUE,
                                       st.cache, ok)
              IN  AudioLoop(i + 1, chs,
                      [raised |-> NoError,
                       audio_files |-> IF r.success
                                       THEN Append(st.audio_files, i)
                                       ELSE st.audio_files,
                       cache |-> r.cache,
                       tts_calls |-> st.tts_calls + Len(r.invoked)],
                      cfg, ok)

_generate_audio_for_chunks(chs, cfg, cache, ok) ==
    AudioLoop(1, chs,
              [raised |-> NoError, audio_files |-> <<>>, cache |-> cache,
               tts_calls |-> 0],
              cfg, ok)

\* a plausible slip: only the pipeline's own ValueError is handled
CatchesValueErrorOnly(type) == type = "ValueError"

\* except Exception: every exception type of the model derives from Exception
Catches(type) ==
    type \in {"ValueError", "TypeError", "KeyError", "ZeroDivisionError"}

\* a plausible slip: the requested path is reported although the run failed
FailureResultWithPath(e) ==
    [success |-> FALSE, error |-> e.message, output_path |-> "output.mp4",
     message |-> "Video generation failed"]

\* the dictionary returned by the except branch
FailureResult(e) ==
    [success |-> FALSE, error |-> e.message, output_path |-> "None",
     message |-> "Video generation failed"]

NoResult == [pending |-> TRUE]

NoCalls == [tts |-> 0, image |-> 0, assemble |-> 0, merge |-> 0]

\* no direct call made yet
NoCall == [made |-> FALSE]

\* the defaults of the dataclass GenerationOptions, for the fields the
\* pipeline branches on; background_music_path is "None" when there is none
GenerationOptions ==
    [generate_images |-> TRUE, add_subtitles |-> TRUE, add_transitions |-> TRUE,
     add_background_music |-> FALSE, background_music_path |-> "None",
     save_to_cloud |-> FALSE]

\* an environment in which every image, every video operation and the upload
\* succeed; failing_chunks holds the positions of the chunks whose slideshow
\* cannot be written
AllBackendsWork ==
    [image_ok |-> TRUE, failing_chunks |-> {}, merge_ok |-> TRUE,
     subtitles_ok |-> TRUE, transitions_ok |-> TRUE, music_ok |-> TRUE,
     upload_ok |-> TRUE]

\* self.stats as __init__ and reset_statistics set it; success_rate is
\* written as its literal, average_generation_time as a fraction
ZeroStatistics ==
    [total_videos |-> 0, total_duration |-> 0, success_rate |-> "0.0",
     average_generation_time |-> [num |-> 0, den |-> 1]]

RECURSIVE SumTotalDuration(_, _)
SumTotalDuration(chs, i) ==
    IF i > Len(chs) THEN 0 ELSE chs[i].total_duration + SumTotalDuration(chs, i + 1)

\* _update_statistics: one more video, its duration added, the average
\* generation time recomputed over the videos counted
_update_statistics(st, chs, generation_time) ==
    LET n == st.total_videos + 1
        avg == st.average_generation_time
    IN  [total_videos |-> n,
         total_duration |-> st.total_duration + SumTotalDuration(chs, 1),
         success_rate |-> "0.95",
         average_generation_time |->
             [num |-> avg.num * (n - 1) + generation_time * avg.den,
              den |-> avg.den * n]]

\* reset_statistics
reset_statistics == ZeroStatistics

\* the temp directory as _setup_directories leaves it when the generator is
\* constructed on a fresh project: it exists and holds no artifact; cleanups
\* counts the calls of _cleanup_temp_files
TempDirAtStart == [exists |-> TRUE, files |-> {}, cleanups |-> 0]

\* the artifacts of one chunk that the steps of a run write to temp_dir
TempArtifacts == {"audio_chunk_0.mp3", "image_0_0.png", "video_chunk_0.mp4"}

\* _cleanup_temp_files: an existing temp directory is removed with all it
\* holds and created again; a missing one is left missing
_cleanup_temp_files(dir) ==
    [dir EXCEPT !.files = IF dir.exists THEN {} ELSE @, !.cleanups = @ + 1]

----------------------------------------------------------------------------
(* ImageGenerator.  The output directory can be created: the mkdir of      *)
(* generate_image does not raise.                                          *)

\* what _load_pipeline does when it has to load: the model loads; diffusers
\* or torch cannot be imported; from_pretrained raises; the pipeline is
\* assigned and moving it to the device raises
LoadOutcomes == {"Loaded", "ImportError", "LoadError", "MoveError"}

\* _load_pipeline: self._pipeline afterwards, and whether an exception leaves it
_load_pipeline(pipe, load) ==
    IF pipe # "None" THEN [pipeline |-> pipe, raised |-> FALSE]
    ELSE [pipeline |-> IF load \in {"Loaded", "MoveError"} THEN "Loaded" ELSE "None",
          raised |-> load \in {"LoadError", "MoveError"}]

\* longest prompt text drawn on a placeholder in full
MaxPlaceholderChars == 60

\* prompt[:60] + "..." if len(prompt) > 60 else prompt
PlaceholderText(prompt) ==
    IF Len(prompt) > MaxPlaceholderChars
    THEN Prefix(prompt, MaxPlaceholderChars) \o <<".", ".", ".">>
    ELSE prompt

\* the image files generate_image writes, and no file
GeneratedImage(prompt, size) == [kind |-> "generated", text |-> prompt, size |-> size]

PlaceholderImage(prompt, size) ==
    [kind |-> "placeholder", text |-> PlaceholderText(prompt), size |-> size]

NoImage == [kind |-> "None", text |-> <<>>, size |-> <<0, 0>>]

\* _generate_placeholder: False when rendering or saving raises
_generate_placeholder(prompt, size, placeholder_ok) ==
    IF placeholder_ok
    THEN [success |-> TRUE, output |-> PlaceholderImage(prompt, size)]
    ELSE [success |-> FALSE, output |-> NoImage]

\* a plausible slip: the exception is re-raised at the first failed attempt
IsFirstAttempt(attempt, num_attempts) == attempt = 0

\* attempt == num_attempts - 1
IsLastAttempt(attempt, num_attempts) == attempt = num_attempts - 1

\* the retry loop of _generate_stable_diffusion from attempt (counted from 0)
\* on; backend[k] tells whether the k-th pipeline call and its save succeed.
\* The loop ends "saved" by return True, "raised" by the re-raise of the last
\* attempt, or "fell_through" when range(num_attempts) is used up.
RECURSIVE AttemptLoop(_, _, _)
AttemptLoop(attempt, num_attempts, backend) ==
    IF attempt >= num_attempts
    THEN [invocations |-> attempt, ended |-> "fell_through"]
    ELSE IF backend[attempt + 1]
         THEN [invocations |-> attempt + 1, ended |-> "saved"]
         ELSE IF IsLastAttempt(attempt, num_attempts)
              THEN [invocations |-> attempt + 1, ended |-> "raised"]
              ELSE AttemptLoop(attempt + 1, num_attempts, backend)

\* the result of a generate_image call that ends in _generate_placeholder
ViaPlaceholder(prompt, size, placeholder_ok, pipe, loaded, invocations) ==
    [success |-> _generate_placeholder(prompt, size, placeholder_ok).success,
     output |-> _generate_placeholder(prompt, size, placeholder_ok).output,
     invocations |-> invocations, placeholder_called |-> TRUE,
     loaded |-> loaded, pipeline |-> pipe]

\* _generate_stable_diffusion
_generate_stable_diffusion(prompt, size, num_attempts, pipe, load, backend, placeholder_ok) ==
    LET l == _load_pipeline(pipe, load)
        loop == AttemptLoop(0, num_attempts, backend)
    IN  IF l.raised \/ l.pipeline = "None"
        THEN ViaPlaceholder(prompt, size, placeholder_ok, l.pipeline, FALSE, 0)
        ELSE IF loop.ended = "saved"
             THEN [success |-> TRUE, output |-> GeneratedImage(prompt, size),
                   invocations |-> loop.invocations, placeholder_called |-> FALSE,
                   loaded |-> TRUE, pipeline |-> l.pipeline]
             ELSE IF loop.ended = "raised"
                  THEN ViaPlaceholder(prompt, size, placeholder_ok, l.pipeline,
                                      TRUE, loop.invocations)
                  ELSE [success |-> FALSE, output |-> NoImage,
                        invocations |-> loop.invocations,
                        placeholder_called |-> FALSE,
                        loaded |-> TRUE, pipeline |-> l.pipeline]

\* a plausible slip: every name but "placeholder" is taken for stable_diffusion
EnginePathDiffusionByDefault(engine) ==
    IF engine = "placeholder" THEN "placeholder" ELSE "stable_diffusion"

\* the branch generate_image takes for an engine name
EnginePath(engine) ==
    IF engine = "stable_diffusion" THEN "stable_diffusion" ELSE "placeholder"

\* generate_image.  The result holds the returned value, the file written
\* to output_file, the number of pipeline calls, whether _generate_placeholder
\* was called, whether the retry loop was reached with a pipeline, and
\* self._pipeline afterwards.
generate_image(prompt, engine, size, num_attempts, pipe, load, backend, placeholder_ok) ==
    IF EnginePath(engine) = "stable_diffusion"
    THEN _generate_stable_diffusion(prompt, size, num_attempts, pipe, load,
                                    backend, placeholder_ok)
    ELSE ViaPlaceholder(prompt, size, placeholder_ok, pipe, FALSE, 0)

\* the pipeline calls made by the generate_image calls of a batch
RECURSIVE SumInvocations(_)
SumInvocations(results) ==
    IF results = <<>> THEN 0
    ELSE Head(results).invocations + SumInvocations(Tail(results))

\* a plausible slip: the output file is appended whatever generate_image returned
BatchStepAppendingAlways(st, i, r) ==
    [pipeline |-> r.pipeline,
     results |-> Append(st.results, r),
     output_files |-> Append(st.output_files, i)]

\* one iteration of batch_generate: r is what generate_image did for prompt i;
\* output files are named by the prompt's index
BatchStep(st, i, r) ==
    [pipeline |-> r.pipeline,
     results |-> Append(st.results, r),
     output_files |-> IF r.success THEN Append(st.output_files, i)
                      ELSE st.output_files]

\* the loop of batch_generate from prompt i on; kwargs = [engine, size,
\* num_attempts], envs[i] = [backend, placeholder_ok] for prompt i
RECURSIVE BatchLoop(_, _, _, _, _, _)
BatchLoop(i, prompts, kwargs, load, envs, st) ==
    IF i > Len(prompts) THEN st
    ELSE BatchLoop(i + 1, prompts, kwargs, load, envs,
             BatchStep(st, i,
                 generate_image(prompts[i], kwargs.engine, kwargs.size,
                                kwargs.num_attempts, st.pipeline, load,
                                envs[i].backend, envs[i].placeholder_ok)))

batch_generate(prompts, kwargs, pipe, load, envs) ==
    BatchLoop(1, prompts, kwargs, load, envs,
              [pipeline |-> pipe, results |-> <<>>, output_files |-> <<>>])

----------------------------------------------------------------------------
(* Configurations and inputs *)

\* the engine argument of generate_image: the two names it knows and another
ImageEngines == {"stable_diffusion", "placeholder", "dalle"}

\* the size argument: the default and a portrait size
ImageSizes == {<<1024, 576>>, <<576, 1024>>}

ImagePrompts == {<<"a">>, <<"a", " ", "a">>}

\* outcomes of the pipeline calls of one generate_image call
BackendOutcomes == [1..MaxAttempts -> BOOLEAN]

\* in a batch: the pipeline fails some number of times and works from then on
RecoveringOutcomes ==
    {[k \in 1..MaxAttempts |-> k >= first] : first \in 1..(MaxAttempts + 1)}

\* the prompt lists handed to batch_generate: prompt i has a text of its own
PromptLists == {[i \in 1..n |-> [k \in 1..i |-> "a"]] : n \in 0..MaxPrompts}

\* texts handed directly to generate_speech: empty, whitespace only, and two
\* texts with content
SpeechTexts == {<<>>, <<" ">>, <<"a">>, <<".">>}

\* the engine argument: keys of self.engines, a name that is no key, and the
\* omitted argument
PreferredChoices == {"google", "edge", "coqui", "azure", "None"}

\* configured fallback lists: the default, and one in another order that
\* holds coqui and a name that is no key
FallbackChoices == {fallback_engines, <<"pyttsx3", "azure", "coqui", "google">>}

\* divisors of 60, and 0
WordsPerMinuteChoices == {0, 30, 60}

Configs(wpms, mins, maxs, tts) ==
    [words_per_minute : wpms, min_scene_duration : mins,
     max_scene_duration : maxs, has_text_to_speech : tts]

OrchestratorConfigs == Configs({0, 60}, {2}, {3}, BOOLEAN)

SegmenterConfigs == Configs(WordsPerMinuteChoices, {2, 4}, {3}, {TRUE})

ChunkDurationChoices == {1, 300}

\* the scene sequences handed to _create_chunks: scene i of a sequence has
\* a text of its own and any duration up to MaxSceneDuration
SceneOf(i, d) ==
    [text |-> [k \in 1..i |-> "a"], duration |-> d,
     image_prompt |-> [k \in 1..i |-> "a"]]

SceneSeqs ==
    UNION {{[i \in 1..n |-> SceneOf(i, ds[i])] : ds \in [1..n -> 1..MaxSceneDuration]}
           : n \in 0..MaxScenes}

----------------------------------------------------------------------------
(* generate_from_script *)

Init ==
    /\ config \in OrchestratorConfigs
    /\ engine_ok \in [Engines -> BOOLEAN]
    /\ tts_cache = {}
    /\ script_text = <<>>
    /\ max_chunk_duration = 0
    /\ scenes = <<>>
    /\ chunks = <<>>
    /\ audio_files = <<>>
    /\ stage = "START"
    /\ failed_stage = "None"
    /\ error = NoError
    /\ result = NoResult
    /\ calls = NoCalls
    /\ fallbacks = fallback_engines
    /\ n_calls = 0
    /\ this_call = NoCall
    /\ prev_call = NoCall
    /\ pipeline = "None"
    /\ pipeline_load = "Loaded"
    /\ options = GenerationOptions
    /\ backends = AllBackendsWork
    /\ stats = ZeroStatistics
    /\ temp_dir = TempDirAtStart

\* Step 1: the call is made with some script and options.chunk_duration, and
\* parse_script runs
Segment ==
    /\ stage = "START"
    /\ \E s \in TextsUpTo(MaxScriptLen), d \in ChunkDurationChoices :
        /\ script_text' = s
        /\ max_chunk_duration' = d
        /\ IF ParseScriptRaises(s, config)
           THEN /\ stage' = "EXCEPT"
                /\ failed_stage' = "SEGMENT"
                /\ error' = [type |-> "ZeroDivisionError",
                             message |-> "division by zero"]
                /\ UNCHANGED <<scenes, chunks>>
           ELSE /\ stage' = "SYNTHESIZE_AUDIO"
                /\ scenes' = ParseScenes(s, config)
                /\ chunks' = parse_script(s, d, config)
                /\ UNCHANGED <<failed_stage, error>>
    /\ UNCHANGED <<config, engine_ok, tts_cache, audio_files, result, calls>>
    /\ UNCHANGED call_vars
    /\ UNCHANGED run_vars

\* Step 2: _generate_audio_for_chunks, then the test of audio_files
SynthesizeAudio ==
    /\ stage = "SYNTHESIZE_AUDIO"
    /\ LET r == _generate_audio_for_chunks(chunks, config, tts_cache, engine_ok)
       IN  /\ tts_cache' = r.cache
           /\ calls' = [calls EXCEPT !.tts = @ + r.tts_calls]
           /\ audio_files' = r.audio_files
           /\ IF r.raised # NoError
              THEN /\ stage' = "EXCEPT"
                   /\ failed_stage' = "SYNTHESIZE_AUDIO"
                   /\ error' = r.raised
              ELSE IF r.audio_files = <<>>
                   THEN /\ stage' = "EXCEPT"
                        /\ failed_stage' = "SYNTHESIZE_AUDIO"
                        /\ error' = [type |-> "ValueError",
                                     message |-> "Audio generation failed"]
                   ELSE /\ stage' = "GENERATE_IMAGES"
                        /\ UNCHANGED <<failed_stage, error>>
    /\ UNCHANGED <<config, engine_ok, script_text, max_chunk_duration, scenes,
                   chunks, result>>
    /\ UNCHANGED call_vars
    /\ UNCHANGED run_vars

\* the except branch of generate_from_script; an exception it does not catch
\* leaves the call
HandleException ==
    /\ stage = "EXCEPT"
    /\ IF Catches(error.type)
       THEN /\ stage' = "FAILED"
            /\ result' = FailureResult(error)
       ELSE /\ stage' = "RAISED"
            /\ UNCHANGED result
    /\ UNCHANGED <<config, engine_ok, tts_cache, script_text, max_chunk_duration,
                   scenes, chunks, audio_files, failed_stage, error, calls>>
    /\ UNCHANGED call_vars
    /\ UNCHANGED run_vars

Next == Segment \/ SynthesizeAudio \/ HandleException

Spec == Init /\ [][Next]_vars

----------------------------------------------------------------------------
(* Direct calls of the ScriptProcessor: parse_script on any script,       *)
(* _create_chunks on any scene sequence                                    *)

InitSegmenter ==
    /\ config \in SegmenterConfigs
    /\ engine_ok = [e \in Engines |-> TRUE]
    /\ tts_cache = {}
    /\ script_text = <<>>
    /\ max_chunk_duration = 0
    /\ scenes = <<>>
    /\ chunks = <<>>
    /\ audio_files = <<>>
    /\ stage = "IDLE"
    /\ failed_stage = "None"
    /\ error = NoError
    /\ result = NoResult
    /\ calls = NoCalls
    /\ fallbacks = fallback_engines
    /\ n_calls = 0
    /\ this_call = NoCall
    /\ prev_call = NoCall
    /\ pipeline = "None"
    /\ pipeline_load = "Loaded"
    /\ options = GenerationOptions
    /\ backends = AllBackendsWork
    /\ stats = ZeroStatistics
    /\ temp_dir = TempDirAtStart

ParseScriptCall ==
    /\ stage = "IDLE"
    /\ \E s \in TextsUpTo(MaxTextLen), d \in ChunkDurationChoices :
        /\ script_text' = s
        /\ max_chunk_duration' = d
        /\ IF ParseScriptRaises(s, config)
           THEN /\ stage' = "RAISED"
                /\ error' = [type |-> "ZeroDivisionError",
                             message |-> "division by zero"]
                /\ UNCHANGED <<scenes, chunks>>
           ELSE /\ stage' = "PARSED"
                /\ scenes' = ParseScenes(s, config)
                /\ chunks' = parse_script(s, d, config)
                /\ UNCHANGED error
    /\ UNCHANGED <<config, engine_ok, tts_cache, audio_files, failed_stage,
                   result, calls>>
    /\ UNCHANGED call_vars
    /\ UNCHANGED run_vars

CreateChunksCall ==
    /\ stage = "IDLE"
    /\ \E ss \in SceneSeqs, d \in 0..MaxChunkBound :
        /\ scenes' = ss
        /\ max_chunk_duration' = d
        /\ chunks' = _create_chunks(ss, d)
        /\ stage' = "CHUNKED"
    /\ UNCHANGED <<config, engine_ok, tts_cache, script_text, audio_files,
                   failed_stage, error, result, calls>>
    /\ UNCHANGED call_vars
    /\ UNCHANGED run_vars

NextSegmenter == ParseScriptCall \/ CreateChunksCall

SpecSegmenter == InitSegmenter /\ [][NextSegmenter]_vars

----------------------------------------------------------------------------
(* Properties of the segmenter *)

Segmented == stage \in {"PARSED", "CHUNKED"}

RECURSIVE SumDurations(_)
SumDurations(ss) ==
    IF ss = <<>> THEN 0 ELSE Head(ss).duration + SumDurations(Tail(ss))

RECURSIVE ConcatScenes(_)
ConcatScenes(chs) ==
    IF chs = <<>> THEN <<>> ELSE Head(chs).scenes \o ConcatScenes(Tail(chs))

Oversized(scene) == scene.duration > max_chunk_duration

\* C4: every chunk the Segmenter returns has total_duration <=
\* max_chunk_duration, except a chunk made of exactly one scene whose own
\* duration exceeds max_chunk_duration; an oversized scene is alone in its chunk.
C4_ChunkDurationBound ==
    Segmented =>
        \A i \in 1..Len(chunks) :
            /\ \/ chunks[i].total_duration <= max_chunk_duration
               \/ Len(chunks[i].scenes) = 1 /\ Oversized(chunks[i].scenes[1])
            /\ \A j \in 1..Len(chunks[i].scenes) :
                   Oversized(chunks[i].scenes[j]) => Len(chunks[i].scenes) = 1

\* an oversized singleton chunk between two chunks that hold several scenes
C4_Witness ==
    /\ stage = "CHUNKED"
    /\ Len(chunks) = 3
    /\ Len(chunks[1].scenes) >= 2
    /\ Len(chunks[2].scenes) = 1 /\ Oversized(chunks[2].scenes[1])
    /\ chunks[3].total_duration = max_chunk_duration

\* C5: the chunks partition the scene sequence in original order: no chunk is
\* empty and the chunks' scene lists, concatenated in chunk order, are the
\* scene sequence.
C5_ChunksPartitionScenes ==
    Segmented =>
        /\ \A i \in 1..Len(chunks) : chunks[i].scenes # <<>>
        /\ ConcatScenes(chunks) = scenes

C5_Witness ==
    /\ stage = "CHUNKED"
    /\ Len(scenes) >= 4
    /\ Len(chunks) >= 2
    /\ Len(chunks) < Len(scenes)

\* C6: the total_duration of every chunk is the sum of the durations of the
\* scenes of that chunk.
C6_TotalIsSumOfScenes ==
    Segmented =>
        \A i \in 1..Len(chunks) :
            chunks[i].total_duration = SumDurations(chunks[i].scenes)

\* a chunk of several scenes that was opened after an earlier chunk was closed
C6_Witness ==
    /\ stage = "CHUNKED"
    /\ \E i \in 2..Len(chunks) : Len(chunks[i].scenes) >= 2

\* word_count / words_per_minute * 60 of a scene text
RawDuration(text) ==
    (Len(Words(text)) * SecondsPerMinute) \div config.words_per_minute

\* C7: with words_per_minute > 0 and min_scene_duration <= max_scene_duration,
\* the duration of every scene is word_count / words_per_minute * 60 clamped
\* into [min_scene_duration, max_scene_duration].
C7_SceneDurationClamped ==
    (/\ stage = "PARSED"
     /\ config.words_per_minute > 0
     /\ config.min_scene_duration <= config.max_scene_duration) =>
        \A i \in 1..Len(scenes) :
            LET raw == RawDuration(scenes[i].text)
                d   == scenes[i].duration
            IN  /\ config.min_scene_duration <= d
                /\ d <= config.max_scene_duration
                /\ d = IF raw < config.min_scene_duration
                       THEN config.min_scene_duration
                       ELSE IF raw > config.max_scene_duration
                            THEN config.max_scene_duration
                            ELSE raw

\* a scene whose spoken duration is above the maximum and was clamped to it
C7_Witness ==
    /\ stage = "PARSED"
    /\ config.words_per_minute > 0
    /\ config.min_scene_duration <= config.max_scene_duration
    /\ Len(scenes) = 1
    /\ RawDuration(scenes[1].text) > config.max_scene_duration
    /\ scenes[1].duration = config.max_scene_duration

CountOf(c, s) == Cardinality({i \in 1..Len(s) : s[i] = c})

\* C8: one scene per non-empty paragraph, the paragraphs being the lines of
\* the input script: a script with k non-empty lines yields exactly k scenes.
\* (A line counts as non-empty when something other than whitespace is left
\* of it once the characters outside the allow-list are removed.)
C8_OneScenePerLine ==
    stage = "PARSED" =>
        Len(scenes) = Len(_split_paragraphs(RemoveSpecial(script_text)))

\* a script of one line that consists of two sentences, each with a word and
\* each ended by a period
TwoSentenceLine(text) ==
    /\ \A k \in 1..Len(text) : text[k] \in {"a", " ", "."}
    /\ CountOf(".", text) = 2
    /\ Len(text) > 0 /\ text[Len(text)] = "."
    /\ \E i \in 1..Len(text) :
           /\ text[i] = "."
           /\ \E k \in 1..(i - 1) : text[k] = "a"
           /\ \E k \in (i + 1)..(Len(text) - 1) : text[k] = "a"

\* C9 as stated: such a script is segmented into two scenes, one per
\* sentence, placed in one chunk when their durations sum to at most
\* max_chunk_duration.
C9_TwoScenesOneChunk ==
    (stage = "PARSED" /\ TwoSentenceLine(script_text)) =>
        /\ Len(scenes) = 2
        /\ SumDurations(scenes) <= max_chunk_duration => Len(chunks) = 1

\* C9 as amended: with words_per_minute > 0 such a script is segmented into
\* exactly one scene that holds both sentences, and that scene is the only
\* scene of the only chunk, whatever max_chunk_duration is.
C9_OneSceneOneChunk ==
    (stage = "PARSED" /\ TwoSentenceLine(script_text)) =>
        /\ Len(scenes) = 1
        /\ CountOf(".", scenes[1].text) = 2
        /\ Len(chunks) = 1
        /\ chunks[1].scenes = scenes

\* the script "a. a." has been segmented
C9_Witness ==
    /\ stage = "PARSED"
    /\ TwoSentenceLine(script_text)
    /\ CountOf(" ", script_text) = 1
    /\ Len(chunks) = 1

\* C39: chunk packing is greedy in the original order: a new chunk is
\* started only when the next scene does not fit, so for every chunk but the
\* last, the scenes of the chunk together with the first scene of the chunk
\* after it last longer than max_chunk_duration
C39_PackingIsGreedy ==
    Segmented =>
        \A i \in 1..(Len(chunks) - 1) :
            SumDurations(chunks[i].scenes) + chunks[i + 1].scenes[1].duration
                > max_chunk_duration

\* three chunks or more, one of them with several scenes, all of them
\* within the bound
C39_Witness ==
    /\ stage = "CHUNKED"
    /\ Len(chunks) >= 3
    /\ \E i \in 1..(Len(chunks) - 1) : Len(chunks[i].scenes) >= 2
    /\ \A i \in 1..Len(chunks) : SumDurations(chunks[i].scenes) <= max_chunk_duration

----------------------------------------------------------------------------
(* Properties of generate_from_script *)

\* the call has ended: it returned a dictionary or an exception left it
Returned == stage \in {"DONE", "FAILED", "RAISED"}

AllEnginesSucceed == \A e \in Engines : engine_ok[e]

AllEnginesFail == \A e \in Engines : ~engine_ok[e]

\* C1: when the script yields at least one chunk and every backend call
\* succeeds, generate_from_script reaches DONE: success=True, a non-null
\* output_path and chunks_processed equal to the number of chunks.
C1_SucceedsWhenBackendsSucceed ==
    (Returned /\ chunks # <<>> /\ AllEnginesSucceed) =>
        /\ stage = "DONE"
        /\ result.success
        /\ result.output_path # "None"
        /\ result.chunks_processed = Len(chunks)

\* C2: if speech synthesis fails on every engine for every chunk of a
\* segmented script, generate_from_script ends in FAILED at the audio stage:
\* success=False, a non-empty error, output_path None, and no chunk is
\* assembled or merged.
C2_FailsAtAudioWhenEnginesFail ==
    (Returned /\ failed_stage # "SEGMENT" /\ AllEnginesFail) =>
        /\ stage = "FAILED"
        /\ failed_stage = "SYNTHESIZE_AUDIO"
        /\ ~result.success
        /\ result.error # ""
        /\ result.output_path = "None"
        /\ calls.assemble = 0
        /\ calls.merge = 0

\* a run over a script with a chunk, every engine failing, has returned
C2_Witness ==
    /\ stage = "FAILED"
    /\ AllEnginesFail
    /\ chunks # <<>>
    /\ failed_stage = "SYNTHESIZE_AUDIO"

\* C3: generate_from_script never lets an exception reach its caller:
\* whichever stage raises, it returns success=False with a non-empty error
\* and output_path None.
C3_NoExceptionEscapes ==
    /\ stage # "RAISED"
    /\ (Returned /\ failed_stage # "None") =>
           /\ stage = "FAILED"
           /\ ~result.success
           /\ result.error # ""
           /\ result.output_path = "None"

\* an exception that is no ValueError was raised inside a stage and handled
C3_Witness ==
    /\ stage = "FAILED"
    /\ error.type \in {"TypeError", "KeyError", "ZeroDivisionError"}
    /\ ~result.success

\* C10: for an empty or whitespace-only script segmentation returns zero
\* chunks without raising, and generate_from_script returns success=False
\* without invoking any synthesis, image, assembly or merge backend.
C10_BlankScriptFailsFast ==
    (stage # "START" /\ Strip(script_text) = <<>>) =>
        /\ chunks = <<>>
        /\ failed_stage # "SEGMENT"
        /\ calls = NoCalls
        /\ stage \in {"SYNTHESIZE_AUDIO", "EXCEPT", "FAILED"}
        /\ stage = "FAILED" => ~result.success /\ result.output_path = "None"

\* a run over a whitespace-only script has returned
C10_Witness ==
    /\ stage = "FAILED"
    /\ Len(script_text) >= 2
    /\ Strip(script_text) = <<>>
    /\ ~result.success

----------------------------------------------------------------------------
(* Direct calls of TTSGenerator.generate_speech: one generator, whose      *)
(* cache directory starts empty, is called up to MaxSpeechCalls times      *)

InitTTS ==
    /\ config \in Configs({60}, {2}, {3}, {TRUE})
    /\ engine_ok \in [Engines -> BOOLEAN]
    /\ tts_cache = {}
    /\ script_text = <<>>
    /\ max_chunk_duration = 0
    /\ scenes = <<>>
    /\ chunks = <<>>
    /\ audio_files = <<>>
    /\ stage = "TTS"
    /\ failed_stage = "None"
    /\ error = NoError
    /\ result = NoResult
    /\ calls = NoCalls
    /\ fallbacks \in FallbackChoices
    /\ n_calls = 0
    /\ this_call = NoCall
    /\ prev_call = NoCall
    /\ pipeline = "None"
    /\ pipeline_load = "Loaded"
    /\ options = GenerationOptions
    /\ backends = AllBackendsWork
    /\ stats = ZeroStatistics
    /\ temp_dir = TempDirAtStart

GenerateSpeechCall ==
    /\ stage = "TTS"
    /\ n_calls < MaxSpeechCalls
    /\ \E text \in SpeechTexts, engine \in PreferredChoices, use_cache \in BOOLEAN :
        LET r == generate_speech(text, engine, use_cache, tts_cache, engine_ok)
        IN  /\ tts_cache' = r.cache
            /\ calls' = [calls EXCEPT !.tts = @ + Len(r.invoked)]
            /\ this_call' = [made |-> TRUE, text |-> text, engine |-> engine,
                             use_cache |-> use_cache, success |-> r.success,
                             invoked |-> r.invoked, output |-> r.output,
                             cache_hit |-> r.cache_hit,
                             cache_read |-> CacheConsulted(text, engine, use_cache)]
    /\ prev_call' = this_call
    /\ n_calls' = n_calls + 1
    /\ UNCHANGED <<config, engine_ok, script_text, max_chunk_duration, scenes,
                   chunks, audio_files, stage, failed_stage, error, result,
                   fallbacks, pipeline, pipeline_load>>
    /\ UNCHANGED run_vars

NextTTS == GenerateSpeechCall

SpecTTS == InitTTS /\ [][NextTTS]_vars

----------------------------------------------------------------------------
(* Properties of generate_speech *)

\* the latest call reached the engines: text with content, no cache hit
Synthesizing == this_call.made /\ ~IsBlankText(this_call.text) /\ ~this_call.cache_hit

\* the configured fallbacks generate_speech may invoke after the preferred engine
EligibleFallbacks(engine) ==
    SelectSeq(fallbacks, LAMBDA f : f # engine /\ f \in Engines)

\* the engines invoked after the preferred one
InvokedFallbacks(c) ==
    IF ResolveEngine(c.engine) \in Engines THEN Tail(c.invoked) ELSE c.invoked

\* C11: without a cache hit, generate_speech invokes the preferred engine
\* first; after its failure the engines of the configured fallback list in
\* the configured order, the preferred engine left out; each engine is
\* invoked only after all before it failed, and none after the first success.
C11_PreferredThenFallbacksInOrder ==
    Synthesizing =>
        LET engine == ResolveEngine(this_call.engine)
            invoked == this_call.invoked
            rest == InvokedFallbacks(this_call)
            eligible == EligibleFallbacks(engine)
        IN  /\ engine \in Engines => invoked # <<>> /\ invoked[1] = engine
            /\ Len(rest) <= Len(eligible)
            /\ \A i \in 1..Len(rest) : rest[i] = eligible[i]
            /\ \A i \in 1..Len(invoked) : engine_ok[invoked[i]] => i = Len(invoked)
            /\ (invoked # <<>> /\ ~engine_ok[invoked[Len(invoked)]])
                   => Len(rest) = Len(eligible)

\* the preferred engine and the first fallback failed, the second fallback succeeded
C11_Witness ==
    /\ Synthesizing
    /\ Len(this_call.invoked) = 3
    /\ this_call.invoked[1] = ResolveEngine(this_call.engine)
    /\ this_call.success

\* the latest call repeats the text and engine of the call before it, which
\* succeeded, both with caching enabled
RepeatsSucceededCall ==
    /\ prev_call.made /\ this_call.made
    /\ prev_call.success /\ prev_call.use_cache
    /\ this_call.text = prev_call.text
    /\ this_call.engine = prev_call.engine
    /\ this_call.use_cache

\* the repeated call invokes no engine, succeeds, and writes the file the
\* call before it wrote
ServedFromCache ==
    /\ this_call.invoked = <<>>
    /\ this_call.success
    /\ this_call.output = prev_call.output

\* C12, as stated: after a successful generate_speech call with caching
\* enabled, a second call with the same text and engine and caching enabled
\* invokes no engine, succeeds, and writes the file the first call wrote.
C12_RepeatedCallServedFromCache == RepeatsSucceededCall => ServedFromCache

\* C12, amended: the same, for an engine argument that is omitted or names
\* one of the generator's engines.
C12_RepeatedCallOfKnownEngineServedFromCache ==
    (RepeatsSucceededCall /\ ResolveEngine(this_call.engine) \in Engines)
        => ServedFromCache

\* the first call synthesized through a fallback, the second is a cache hit
C12_Witness ==
    /\ RepeatsSucceededCall
    /\ ResolveEngine(this_call.engine) \in Engines
    /\ Len(prev_call.invoked) >= 2
    /\ this_call.cache_hit

\* the engine that succeeded in a call that synthesized
SucceededEngine(c) == c.invoked[Len(c.invoked)]

\* the call before the latest asked for one of the generator's engines and
\* succeeded through another, a fallback
PrevSucceededThroughFallback ==
    /\ prev_call.made /\ prev_call.success /\ prev_call.invoked # <<>>
    /\ ResolveEngine(prev_call.engine) \in Engines
    /\ SucceededEngine(prev_call) # ResolveEngine(prev_call.engine)

\* C13: after generate_speech(text, engine=A) succeeded through a fallback
\* B # A, a later cached request for (text, B) is a cache hit, and a later
\* cached request for (text, A) is no hit and invokes A again.
C13_FallbackResultCachedUnderFallbackKey ==
    (PrevSucceededThroughFallback /\ this_call.made
     /\ this_call.text = prev_call.text /\ this_call.use_cache)
        => /\ ResolveEngine(this_call.engine) = SucceededEngine(prev_call)
                  => this_call.cache_hit
           /\ ResolveEngine(this_call.engine) = ResolveEngine(prev_call.engine)
                  => /\ ~this_call.cache_hit
                     /\ this_call.invoked # <<>>
                     /\ this_call.invoked[1] = ResolveEngine(this_call.engine)

\* C14: a file served as a cache hit was synthesized by the engine the
\* request asks for, never by another engine.
C14_CacheHitOnlyFromRequestedEngine ==
    (this_call.made /\ this_call.cache_hit)
        => this_call.output.engine = ResolveEngine(this_call.engine)

\* the engines generate_speech may invoke for an engine argument all fail
AllCandidatesFail(engine) ==
    \A i \in 1..Len(EngineOrder(ResolveEngine(engine))) :
        ~engine_ok[EngineOrder(ResolveEngine(engine))[i]]

\* C15: for a text that is empty or only whitespace, generate_speech returns
\* False, invokes no engine, does not look into the cache, writes no output
\* file and leaves the cache directory as it was.
C15_BlankTextRejected ==
    /\ [](this_call.made /\ Strip(this_call.text) = <<>>
            => /\ ~this_call.success
               /\ this_call.invoked = <<>>
               /\ ~this_call.cache_read /\ ~this_call.cache_hit
               /\ this_call.output = NoArtifact)
    /\ [][(this_call'.made /\ Strip(this_call'.text) = <<>>)
            => tts_cache' = tts_cache]_vars

\* a whitespace-only text is rejected by a generator whose cache holds a file
C15_Witness ==
    /\ this_call.made
    /\ this_call.text = <<" ">>
    /\ this_call.use_cache
    /\ tts_cache # {}
    /\ ~this_call.success

\* C16: when the preferred engine and every fallback fail, generate_speech
\* returns False and leaves the cache directory as it was.
C16_AllFailLeavesCache ==
    /\ []((Synthesizing /\ AllCandidatesFail(this_call.engine))
            => ~this_call.success)
    /\ [][(this_call'.made /\ ~IsBlankText(this_call'.text)
           /\ ~this_call'.cache_hit /\ AllCandidatesFail(this_call'.engine))
            => tts_cache' = tts_cache]_vars

\* the preferred engine and two fallbacks were invoked and failed, while the
\* cache holds a file from an earlier call
C16_Witness ==
    /\ Synthesizing
    /\ AllCandidatesFail(this_call.engine)
    /\ Len(this_call.invoked) = 3
    /\ tts_cache # {}
    /\ ~this_call.success

----------------------------------------------------------------------------
(* Direct calls of the ImageGenerator: one call of generate_image or of    *)
(* batch_generate on a newly constructed generator                          *)

InitImages ==
    /\ config \in Configs({60}, {2}, {3}, {TRUE})
    /\ engine_ok = [e \in Engines |-> TRUE]
    /\ tts_cache = {}
    /\ script_text = <<>>
    /\ max_chunk_duration = 0
    /\ scenes = <<>>
    /\ chunks = <<>>
    /\ audio_files = <<>>
    /\ stage = "IMAGES"
    /\ failed_stage = "None"
    /\ error = NoError
    /\ result = NoResult
    /\ calls = NoCalls
    /\ fallbacks = fallback_engines
    /\ n_calls = 0
    /\ this_call = NoCall
    /\ prev_call = NoCall
    /\ pipeline = "None"
    /\ pipeline_load \in LoadOutcomes
    /\ options = GenerationOptions
    /\ backends = AllBackendsWork
    /\ stats = ZeroStatistics
    /\ temp_dir = TempDirAtStart

GenerateImageCall ==
    /\ stage = "IMAGES"
    /\ \E prompt \in ImagePrompts, engine \in ImageEngines, size \in ImageSizes,
          num_attempts \in 0..MaxAttempts, backend \in BackendOutcomes,
          placeholder_ok \in BOOLEAN :
        LET r == generate_image(prompt, engine, size, num_attempts, pipeline,
                                pipeline_load, backend, placeholder_ok)
        IN  /\ pipeline' = r.pipeline
            /\ calls' = [calls EXCEPT !.image = @ + r.invocations]
            /\ this_call' = [made |-> TRUE, method |-> "generate_image",
                             prompt |-> prompt, engine |-> engine,
                             size |-> size, num_attempts |-> num_attempts,
                             backend |-> backend,
                             placeholder_ok |-> placeholder_ok,
                             success |-> r.success, output |-> r.output,
                             invocations |-> r.invocations,
                             placeholder_called |-> r.placeholder_called,
                             loaded |-> r.loaded]
    /\ stage' = "RETURNED"
    /\ n_calls' = n_calls + 1
    /\ UNCHANGED <<config, engine_ok, tts_cache, script_text, max_chunk_duration,
                   scenes, chunks, audio_files, failed_stage, error, result,
                   fallbacks, prev_call, pipeline_load>>
    /\ UNCHANGED run_vars

BatchGenerateCall ==
    /\ stage = "IMAGES"
    /\ \E prompts \in PromptLists, engine \in ImageEngines,
          num_attempts \in 0..MaxAttempts :
       \E envs \in [1..Len(prompts) ->
                       [backend : RecoveringOutcomes, placeholder_ok : BOOLEAN]] :
        LET kwargs == [engine |-> engine, size |-> <<1024, 576>>,
                       num_attempts |-> num_attempts]
            r == batch_generate(prompts, kwargs, pipeline, pipeline_load, envs)
        IN  /\ pipeline' = r.pipeline
            /\ calls' = [calls EXCEPT !.image =
                            @ + SumInvocations(r.results)]
            /\ this_call' = [made |-> TRUE, method |-> "batch_generate",
                             prompts |-> prompts, engine |-> engine,
                             num_attempts |-> num_attempts, envs |-> envs,
                             results |-> r.results,
                             output_files |-> r.output_files]
    /\ stage' = "RETURNED"
    /\ n_calls' = n_calls + 1
    /\ UNCHANGED <<config, engine_ok, tts_cache, script_text, max_chunk_duration,
                   scenes, chunks, audio_files, failed_stage, error, result,
                   fallbacks, prev_call, pipeline_load>>
    /\ UNCHANGED run_vars

NextImages == GenerateImageCall \/ BatchGenerateCall

SpecImages == InitImages /\ [][NextImages]_vars

----------------------------------------------------------------------------
(* Properties of the ImageGenerator *)

ImageCall == this_call.made /\ this_call.method = "generate_image"

BatchCall == this_call.made /\ this_call.method = "batch_generate"

\* C17: with placeholder rendering and saving working, generate_image returns
\* True and leaves an image file, generated or placeholder, at output_file,
\* for every engine name, all backend outcomes and every num_attempts.
C17_GenerateImageAlwaysSucceeds ==
    (ImageCall /\ this_call.placeholder_ok)
        => this_call.success /\ this_call.output # NoImage

UnknownEngineCall ==
    ImageCall /\ this_call.engine \notin {"stable_diffusion", "placeholder"}

\* the call never reached the pipeline and wrote a placeholder of the
\* requested size, returning True
PlaceholderOfRequestedSize ==
    /\ this_call.invocations = 0
    /\ this_call.success
    /\ this_call.output.kind = "placeholder"
    /\ this_call.output.size = this_call.size

SucceedingAttempts(backend, n) == {k \in 1..n : backend[k]}

\* C19: with engine stable_diffusion and a pipeline, generate_image calls the
\* pipeline until the first success and at most num_attempts times, and
\* calls _generate_placeholder only when all num_attempts calls failed;
\* without a pipeline it calls _generate_placeholder and never the pipeline.
C19_RetryUntilSuccessThenPlaceholder ==
    (ImageCall /\ this_call.engine = "stable_diffusion")
        => LET n == this_call.num_attempts
               good == SucceedingAttempts(this_call.backend, n)
           IN  /\ this_call.invocations <= n
               /\ this_call.loaded
                      => /\ good # {}
                             => /\ \A k \in good : this_call.invocations <= k
                                /\ this_call.invocations \in good
                                /\ this_call.output.kind = "generated"
                                /\ ~this_call.placeholder_called
                         /\ good = {} => this_call.invocations = n
                         /\ this_call.placeholder_called
                                => good = {} /\ this_call.invocations = n
               /\ ~this_call.loaded
                      => this_call.invocations = 0 /\ this_call.placeholder_called

\* the first pipeline call failed, the second succeeded and was the last
C19_Witness ==
    /\ ImageCall /\ this_call.engine = "stable_diffusion"
    /\ this_call.loaded
    /\ this_call.num_attempts = 2
    /\ ~this_call.backend[1] /\ this_call.backend[2]
    /\ this_call.invocations = 2
    /\ this_call.output.kind = "generated"

\* the indices 1..n of the prompts for which generate_image returned True, in order
RECURSIVE SucceededPrompts(_, _)
SucceededPrompts(results, n) ==
    IF n = 0 THEN <<>>
    ELSE IF results[n].success
         THEN Append(SucceededPrompts(results, n - 1), n)
         ELSE SucceededPrompts(results, n - 1)

----------------------------------------------------------------------------
(* Runs of generate_from_script with options and in environments chosen    *)
(* when the generator is built: every speech engine works, the other       *)
(* backends work or fail one at a time.  The steps are those of Spec: a    *)
(* run ends in step 1 or step 2, before any statement that reads the       *)
(* options (other than chunk_duration and voice_engine) or calls one of    *)
(* these backends, so options and backends only tell the runs apart.       *)

\* the options a run is made with: the defaults, and the defaults with one
\* stage switched
OptionChoices ==
    {GenerationOptions,
     [GenerationOptions EXCEPT !.generate_images = FALSE],
     [GenerationOptions EXCEPT !.add_transitions = FALSE],
     [GenerationOptions EXCEPT !.save_to_cloud = TRUE],
     [GenerationOptions EXCEPT !.add_background_music = TRUE,
                               !.background_music_path = "music.mp3"]}

\* the environments of a run: everything works, or one thing fails
BackendChoices ==
    {AllBackendsWork,
     [AllBackendsWork EXCEPT !.image_ok = FALSE],
     [AllBackendsWork EXCEPT !.failing_chunks = {2}],
     [AllBackendsWork EXCEPT !.merge_ok = FALSE],
     [AllBackendsWork EXCEPT !.subtitles_ok = FALSE],
     [AllBackendsWork EXCEPT !.upload_ok = FALSE]}

InitRun ==
    /\ config \in Configs({60}, {2}, {3}, BOOLEAN)
    /\ engine_ok = [e \in Engines |-> TRUE]
    /\ tts_cache = {}
    /\ script_text = <<>>
    /\ max_chunk_duration = 0
    /\ scenes = <<>>
    /\ chunks = <<>>
    /\ audio_files = <<>>
    /\ stage = "START"
    /\ failed_stage = "None"
    /\ error = NoError
    /\ result = NoResult
    /\ calls = NoCalls
    /\ fallbacks = fallback_engines
    /\ n_calls = 0
    /\ this_call = NoCall
    /\ prev_call = NoCall
    /\ pipeline = "None"
    /\ pipeline_load = "Loaded"
    /\ options \in OptionChoices
    /\ backends \in BackendChoices
    /\ stats = ZeroStatistics
    /\ temp_dir = TempDirAtStart

SpecRun == InitRun /\ [][Next]_vars

\* the non-empty lines of the script: the scenes, and with a chunk duration
\* below the shortest scene the chunks, that the script is to give
ScriptLines == _split_paragraphs(RemoveSpecial(script_text))

\* a run over a script of two lines or more, each to be a chunk of its own,
\* in which the slideshow of the second chunk alone cannot be written
SecondChunkFailsAssembly ==
    /\ Returned
    /\ Len(ScriptLines) >= 2
    /\ max_chunk_duration < config.min_scene_duration
    /\ backends = [AllBackendsWork EXCEPT !.failing_chunks = {2}]
    /\ options = GenerationOptions

\* C21: when chunk assembly fails for some of the chunks and not for all, the
\* run is not aborted: it skips the failed chunks, merges the assembled ones
\* in order and returns success=True.
C21_PartialAssemblyStillSucceeds ==
    SecondChunkFailsAssembly =>
        /\ stage = "DONE"
        /\ result.success
        /\ calls.merge >= 1

\* C22: on success chunks_processed is the number of chunks assembled and
\* merged: a run in which one chunk is skipped at assembly returns
\* success=True with chunks_processed one below the number of chunks.
C22_ChunksProcessedCountsAssembledChunks ==
    SecondChunkFailsAssembly =>
        /\ stage = "DONE"
        /\ result.chunks_processed = Len(ScriptLines) - 1

\* a run over a script with a chunk, made with the subtitle stage alone
\* enabled, in an environment where writing the subtitled video fails
SubtitleStageFails ==
    /\ Returned
    /\ chunks # <<>>
    /\ options = [GenerationOptions EXCEPT !.add_transitions = FALSE]
    /\ backends = [AllBackendsWork EXCEPT !.subtitles_ok = FALSE]

\* C26: an enhancement stage that fails internally does not abort the run:
\* the stage passes its input through, and the run returns success with a
\* final video.
C26_FailingStageDoesNotAbortRun ==
    SubtitleStageFails =>
        /\ stage = "DONE"
        /\ result.success
        /\ result.output_path # "None"

\* the stages of a run in the order of the steps of generate_from_script;
\* the run is in "START" from the call until parse_script has returned
\* (SEGMENT), and in every other stage from the end of the stage before it
StageOrder ==
    <<"START", "SYNTHESIZE_AUDIO", "GENERATE_IMAGES", "ASSEMBLE_CHUNKS",
      "MERGE", "ENHANCE", "CLOUD_UPLOAD", "DONE">>

\* the stages an option switches off
OptionalStages == {"GENERATE_IMAGES", "CLOUD_UPLOAD"}

\* the place of a stage in the order, 0 for what is no stage of it
Position(s) ==
    IF \E i \in 1..Len(StageOrder) : StageOrder[i] = s
    THEN CHOOSE i \in 1..Len(StageOrder) : StageOrder[i] = s
    ELSE 0

\* from stage s the run goes on to t: t is the next stage, or the one after
\* an optional next stage
GoesOn(s, t) ==
    /\ Position(s) > 0
    /\ \/ Position(t) = Position(s) + 1
       \/ /\ Position(t) = Position(s) + 2
          /\ StageOrder[Position(s) + 1] \in OptionalStages

\* the run leaves stage s, recorded as f, by an exception
FailsFrom(s, f) == stage = s /\ stage' = "EXCEPT" /\ failed_stage' = f

ImagesSkippedOrFailing ==
    /\ Returned
    /\ chunks # <<>>
    /\ \/ /\ options = [GenerationOptions EXCEPT !.generate_images = FALSE]
          /\ backends = AllBackendsWork
       \/ /\ options = GenerationOptions
          /\ backends = [AllBackendsWork EXCEPT !.image_ok = FALSE]

\* C28: image generation is optional: a run made with generate_images off
\* calls no image backend and goes on through chunk assembly to DONE, and
\* neither skipping the stage nor a failure inside it makes the run fail.
C28_ImageStageOptional ==
    ImagesSkippedOrFailing =>
        /\ stage = "DONE"
        /\ calls.assemble >= 1
        /\ options.generate_images \/ calls.image = 0

\* a run over a script with a chunk, made with save_to_cloud on, in which
\* everything works but the upload
UploadFails ==
    /\ Returned
    /\ chunks # <<>>
    /\ options = [GenerationOptions EXCEPT !.save_to_cloud = TRUE]
    /\ backends = [AllBackendsWork EXCEPT !.upload_ok = FALSE]

\* C29: the outcome of the cloud upload, attempted after merge and
\* enhancement of a run made with save_to_cloud on, does not change the
\* run's result: when the upload fails the run still returns success=True
\* with the local output path.
C29_UploadFailureKeepsSuccess ==
    UploadFails =>
        /\ stage = "DONE"
        /\ result.success
        /\ result.output_path # "None"

\* C30: the statistics are updated exactly once for every completed run,
\* successful or failed: when the first run of a generator has returned,
\* one video has been counted.
C30_StatisticsUpdatedOncePerRun ==
    Returned => stats.total_videos = 1

\* C31: the temp directory is cleaned up at the end of every run, on the
\* failure path as on the success path: a run that has returned has called
\* _cleanup_temp_files once, and the temp directory holds no artifact
C31_TempDirCleanedOnEveryReturn ==
    Returned => temp_dir.cleanups = 1 /\ temp_dir.files = {}

----------------------------------------------------------------------------
(* VideoProcessor.  A file is modelled by what it holds; writing a video   *)
(* either succeeds or raises inside the method's try block.               *)

\* no file at the output path
NoVideo == [exists |-> FALSE]

\* the file video.write_videofile leaves: the clips in order, each an image
\* shown for a duration, and whether an audio track was attached
Slideshow(clips, audio) == [exists |-> TRUE, clips |-> clips, audio |-> audio]

\* duration of the audio file, in seconds
AudioDuration == 4

\* durations when the argument is None: the audio's duration divided evenly
\* over the images, kept as a fraction
EvenDurations(images, audio_duration) ==
    [i \in 1..Len(images) |-> [num |-> audio_duration, den |-> Len(images)]]

\* the durations argument as create_slideshow receives it from its caller
GivenDurations(durations) ==
    [i \in 1..Len(durations) |-> [num |-> durations[i], den |-> 1]]

\* the loop over zip(images, durations): a clip for every image file that
\* exists, up to the shorter of the two lists
RECURSIVE ImageClips(_, _, _)
ImageClips(images, durations, i) ==
    IF i > Min2(Len(images), Len(durations))
    THEN <<>>
    ELSE (IF images[i].exists
          THEN <<[image |-> images[i].name, duration |-> durations[i]]>>
          ELSE <<>>) \o ImageClips(images, durations, i + 1)

\* the durations argument omitted: durations is None
NoDurations == [given |-> FALSE]

\* create_slideshow.  images are the files named by the images argument,
\* each existing or not; durations is NoDurations or holds the list given;
\* render_ok tells whether moviepy imports, composes and writes the video.
\* The audio is attached only "if os.path.exists(audio_file)": with the
\* durations given a missing audio file is passed over.
create_slideshow(images, audio_exists, audio_duration, durations, render_ok) ==
    IF ~render_ok \/ images = <<>>
    THEN [success |-> FALSE, output |-> NoVideo]
    ELSE IF ~durations.given /\ ~audio_exists
    THEN [success |-> FALSE, output |-> NoVideo]
    ELSE LET ds == IF durations.given
                   THEN GivenDurations(durations.values)
                   ELSE EvenDurations(images, audio_duration)
             clips == ImageClips(images, ds, 1)
         IN  IF clips = <<>>
             THEN [success |-> FALSE, output |-> NoVideo]
             ELSE [success |-> TRUE, output |-> Slideshow(clips, audio_exists)]

\* durations = [s['duration'] for s in chunk['scenes']]
SceneDurations(chunk) ==
    [given |-> TRUE,
     values |-> [k \in 1..Len(chunk.scenes) |-> chunk.scenes[k].duration]]

Min3(a, b, c) == Min2(a, Min2(b, c))

\* the loop of _create_video_chunks from position i of
\* zip(chunks, audio_files, image_files) on; st = [raised, video_chunks,
\* built], built listing for each create_slideshow call the chunk, the audio
\* file and the images it was given.  The keyword fps=self.config['video']
\* ['fps'] raises KeyError when the configuration has no such key; failing
\* holds the positions at which the video cannot be written.
RECURSIVE VideoChunkLoop(_, _, _, _, _, _, _)
VideoChunkLoop(i, chs, audio, image_files, has_fps, failing, st) ==
    IF i > Min3(Len(chs), Len(audio), Len(image_files)) THEN st
    ELSE IF ~has_fps
    THEN [st EXCEPT !.raised = [type |-> "KeyError", message |-> "'fps'"]]
    ELSE LET r == create_slideshow(image_files[i], audio[i].exists,
                                   AudioDuration, SceneDurations(chs[i]),
                                   i \notin failing)
             call == [chunk |-> i, audio |-> audio[i].name,
                      images |-> image_files[i], success |-> r.success]
         IN  VideoChunkLoop(i + 1, chs, audio, image_files, has_fps, failing,
                 [raised |-> NoError,
                  video_chunks |-> IF r.success
                                   THEN Append(st.video_chunks,
                                            [name |-> i, exists |-> TRUE,
                                             content |-> r.output])
                                   ELSE st.video_chunks,
                  built |-> Append(st.built, call)])

_create_video_chunks(chs, audio, image_files, has_fps, failing) ==
    VideoChunkLoop(1, chs, audio, image_files, has_fps, failing,
                   [raised |-> NoError, video_chunks |-> <<>>, built |-> <<>>])

\* the file video_chunk_{i}.mp4 as create_slideshow left it for chunk i
ChunkVideo(i) == [exists |-> TRUE, chunk |-> i]

\* the file final_video.write_videofile leaves: the clips loaded, in order
MergedVideo(clips) == [exists |-> TRUE, clips |-> clips]

\* a plausible slip: the clips are collected in reverse
LoadedClipsReversed(video_files) ==
    LET existing == SelectSeq(video_files, LAMBDA f : f.exists)
    IN  [i \in 1..Len(existing) |-> existing[Len(existing) + 1 - i].content]

\* the loading loop of merge_videos: a clip for every file that exists, in
\* list order
LoadedClips(video_files) ==
    LET existing == SelectSeq(video_files, LAMBDA f : f.exists)
    IN  [i \in 1..Len(existing) |-> existing[i].content]

\* merge_videos; render_ok tells whether moviepy imports, loads, composes
\* and writes the video
merge_videos(video_files, render_ok) ==
    IF ~render_ok \/ video_files = <<>> \/ LoadedClips(video_files) = <<>>
    THEN [success |-> FALSE, output |-> NoVideo]
    ELSE [success |-> TRUE, output |-> MergedVideo(LoadedClips(video_files))]

\* _merge_video_chunks: a single chunk is copied to output_path (shutil.copy
\* raises when the file is missing), anything else goes to merge_videos
_merge_video_chunks(video_chunks, render_ok) ==
    IF Len(video_chunks) = 1
    THEN IF video_chunks[1].exists
         THEN [success |-> TRUE, output |-> video_chunks[1].content,
               raised |-> NoError, concatenated |-> FALSE]
         ELSE [success |-> FALSE, output |-> NoVideo,
               raised |-> [type |-> "FileNotFoundError",
                           message |-> "No such file or directory"],
               concatenated |-> FALSE]
    ELSE LET r == merge_videos(video_chunks, render_ok)
         IN  [success |-> r.success, output |-> r.output,
              raised |-> NoError, concatenated |-> TRUE]

\* The enhancement stages.  A path that ends in ".mp4" is modelled by the
\* suffixes appended to its stem: <<>> is "out.mp4", <<"subtitled">> is
\* "out_subtitled.mp4".  The directory is a function from the paths of the
\* files in it to what they hold.

\* path.replace('.mp4', '_' + suffix + '.mp4')
WithSuffix(path, suffix) == Append(path, suffix)

\* the file a stage writes when it works: its input with the stage's effect
Enhanced(content, effect) == [exists |-> TRUE, of |-> content, effect |-> effect]

\* add_subtitles, add_transitions, add_background_music: the stage writes
\* its input with its effect to output_file; when anything in it raises it
\* copies video_file to output_file instead; it returns True either way.
\* The input file exists and the copy succeeds.
EnhancementStage(effect, video_file, output_file, ok, files) ==
    (output_file :> (IF ok THEN Enhanced(files[video_file], effect)
                     ELSE files[video_file])) @@ files

\* os.remove(path)
Remove(files, path) == [q \in (DOMAIN files) \ {path} |-> files[q]]

\* the three stages in the order of the statements of _enhance_video, each
\* with the suffix of its output file
Stages == <<"subtitled", "transitions", "music">>

\* the condition under which _enhance_video runs a stage
StageRuns(effect, opts) ==
    CASE effect = "subtitled" -> opts.add_subtitles
      [] effect = "transitions" -> opts.add_transitions
      [] effect = "music" -> opts.add_background_music /\ opts.background_music_path # "None"

\* a plausible slip: a stage is given the merged video, not the output of
\* the stage before it
StageInputAlwaysMerged(enhanced_path, video_path) == video_path

\* the file a stage of _enhance_video is given: enhanced_path
StageInput(enhanced_path, video_path) == enhanced_path

\* a plausible slip: the input of a stage is removed without the test
IsIntermediateAlways(enhanced_path, video_path) == TRUE

\* the test before os.remove(enhanced_path): enhanced_path != video_path
IsIntermediate(enhanced_path, video_path) == enhanced_path # video_path

\* the statements of _enhance_video from stage k on; st = [enhanced_path,
\* files, invoked], invoked listing the stages called with their files and
\* the paths left in the directory when the stage is done.
\* After the subtitle stage an input other than video_path is removed.
RECURSIVE EnhanceFrom(_, _, _, _, _)
EnhanceFrom(k, st, video_path, opts, ok) ==
    IF k > Len(Stages) THEN st
    ELSE IF ~StageRuns(Stages[k], opts)
    THEN EnhanceFrom(k + 1, st, video_path, opts, ok)
    ELSE LET input == StageInput(st.enhanced_path, video_path)
             output == WithSuffix(st.enhanced_path, Stages[k])
             written == EnhancementStage(Stages[k], input, output,
                                         ok[Stages[k]], st.files)
             files == IF k > 1 /\ IsIntermediate(st.enhanced_path, video_path)
                      THEN Remove(written, st.enhanced_path)
                      ELSE written
         IN  EnhanceFrom(k + 1,
                 [enhanced_path |-> output, files |-> files,
                  invoked |-> Append(st.invoked,
                                 [stage |-> Stages[k], input |-> input,
                                  output |-> output, left |-> DOMAIN files])],
                 video_path, opts, ok)

\* _enhance_video: the path returned, the directory afterwards and the
\* stages invoked; ok tells for each stage whether it works
_enhance_video(video_path, files, opts, ok) ==
    EnhanceFrom(1, [enhanced_path |-> video_path, files |-> files,
                    invoked |-> <<>>],
                video_path, opts, ok)

----------------------------------------------------------------------------
(* Subtitles *)

\* default of the parameter max_chars of _split_text_for_subtitles
max_chars == 40

\* one turn of the loop over the words; st = [chunks, current_chunk,
\* current_length]
SplitStep(st, word, limit) ==
    IF st.current_length + Len(word) + 1 <= limit
    THEN [st EXCEPT !.current_chunk = Append(@, word),
                    !.current_length = @ + Len(word) + 1]
    ELSE [chunks |-> Append(st.chunks, JoinWords(st.current_chunk)),
          current_chunk |-> <<word>>,
          current_length |-> Len(word)]

RECURSIVE SplitLoop(_, _, _)
SplitLoop(words, st, limit) ==
    IF words = <<>> THEN st
    ELSE SplitLoop(Tail(words), SplitStep(st, Head(words), limit), limit)

\* _split_text_for_subtitles: the fragments of a text, in order
_split_text_for_subtitles(text, limit) ==
    LET st == SplitLoop(Words(text),
                        [chunks |-> <<>>, current_chunk |-> <<>>,
                         current_length |-> 0],
                        limit)
    IN  IF st.current_chunk # <<>>
        THEN Append(st.chunks, JoinWords(st.current_chunk))
        ELSE st.chunks

\* times in seconds are exact fractions [num, den] with den > 0
Seconds(n) == [num |-> n, den |-> 1]

FracAdd(a, b) == [num |-> a.num * b.den + b.num * a.den, den |-> a.den * b.den]

FracEq(a, b) == a.num * b.den = b.num * a.den

FracLess(a, b) == a.num * b.den < b.num * a.den

\* a plausible slip: the captions of every scene start at 0
SceneStartReset(current_time) == Seconds(0)

\* the time the first caption of a scene starts at: current_time
SceneStart(current_time) == current_time

\* the inner loop of _generate_subtitles from fragment k on; st =
\* [subtitles, current_time]
RECURSIVE CaptionLoop(_, _, _, _)
CaptionLoop(text_chunks, k, chunk_duration, st) ==
    IF k > Len(text_chunks) THEN st
    ELSE CaptionLoop(text_chunks, k + 1, chunk_duration,
             [subtitles |-> Append(st.subtitles,
                                [text |-> text_chunks[k],
                                 start |-> st.current_time,
                                 end |-> FracAdd(st.current_time, chunk_duration)]),
              current_time |-> FracAdd(st.current_time, chunk_duration)])

\* the loop over the scenes from scene j on; st = [raised, subtitles,
\* current_time].  scene['duration'] / len(text_chunks) raises
\* ZeroDivisionError for a scene text without a word.
RECURSIVE SubtitleLoop(_, _, _)
SubtitleLoop(scene_list, j, st) ==
    IF j > Len(scene_list) THEN st
    ELSE LET text_chunks == _split_text_for_subtitles(scene_list[j].text, max_chars)
         IN  IF text_chunks = <<>>
             THEN [st EXCEPT !.raised = [type |-> "ZeroDivisionError",
                                         message |-> "division by zero"]]
             ELSE LET chunk_duration == [num |-> scene_list[j].duration,
                                         den |-> Len(text_chunks)]
                      done == CaptionLoop(text_chunks, 1, chunk_duration,
                                  [subtitles |-> st.subtitles,
                                   current_time |-> SceneStart(st.current_time)])
                  IN  SubtitleLoop(scene_list, j + 1,
                          [raised |-> NoError, subtitles |-> done.subtitles,
                           current_time |-> done.current_time])

\* _generate_subtitles: the captions in order, or the exception raised
_generate_subtitles(chs) ==
    SubtitleLoop(ConcatScenes(chs), 1,
                 [raised |-> NoError, subtitles |-> <<>>,
                  current_time |-> Seconds(0)])

----------------------------------------------------------------------------
(* Direct calls of the methods the pipeline is built from, one call on a    *)
(* freshly built generator                                                 *)

\* the image lists: up to MaxImages files, each existing or not
ImageLists ==
    UNION {{[i \in 1..n |-> [name |-> i, exists |-> ex[i]]] : ex \in [1..n -> BOOLEAN]}
           : n \in 0..MaxImages}

\* the durations argument: omitted, or up to MaxImages durations
DurationLists ==
    {NoDurations} \cup
    {[given |-> TRUE, values |-> d] : d \in UNION {[1..n -> {1, 2}] : n \in 0..MaxImages}}

\* the temp directory a direct call may find: missing, empty, or holding
\* the artifacts of a chunk
TempDirs ==
    {[exists |-> FALSE, files |-> {}, cleanups |-> 0], TempDirAtStart,
     [exists |-> TRUE, files |-> TempArtifacts, cleanups |-> 0]}

InitPipeline ==
    /\ config \in Configs({60}, {2}, {3}, {TRUE})
    /\ engine_ok = [e \in Engines |-> TRUE]
    /\ tts_cache = {}
    /\ script_text = <<>>
    /\ max_chunk_duration = 0
    /\ scenes = <<>>
    /\ chunks = <<>>
    /\ audio_files = <<>>
    /\ stage = "PIPELINE"
    /\ failed_stage = "None"
    /\ error = NoError
    /\ result = NoResult
    /\ calls = NoCalls
    /\ fallbacks = fallback_engines
    /\ n_calls = 0
    /\ this_call = NoCall
    /\ prev_call = NoCall
    /\ pipeline = "None"
    /\ pipeline_load = "Loaded"
    /\ options = GenerationOptions
    /\ backends = AllBackendsWork
    /\ stats = ZeroStatistics
    /\ temp_dir \in TempDirs

\* what a direct call of a pipeline method leaves alone
PipelineCallReturns ==
    /\ stage' = "RETURNED"
    /\ n_calls' = n_calls + 1
    /\ UNCHANGED <<config, engine_ok, tts_cache, script_text, max_chunk_duration,
                   scenes, chunks, audio_files, failed_stage, error, result,
                   fallbacks, prev_call, pipeline, pipeline_load>>

CreateSlideshowCall ==
    /\ stage = "PIPELINE"
    /\ \E images \in ImageLists, audio_exists \in BOOLEAN,
          durations \in DurationLists, render_ok \in BOOLEAN :
        LET r == create_slideshow(images, audio_exists, AudioDuration,
                                  durations, render_ok)
        IN  /\ this_call' = [made |-> TRUE, method |-> "create_slideshow",
                             images |-> images, audio_exists |-> audio_exists,
                             durations |-> durations, render_ok |-> render_ok,
                             success |-> r.success, output |-> r.output]
            /\ calls' = [calls EXCEPT !.assemble = @ + 1]
    /\ PipelineCallReturns
    /\ UNCHANGED run_vars

\* positions of some of the chunks, in chunk order
ChunkPositions ==
    {s \in UNION {[1..n -> 1..MaxVideoChunks] : n \in 0..MaxVideoChunks} :
        \A i, j \in 1..Len(s) : i < j => s[i] < s[j]}

\* the lists of video chunk files: the files of some of the chunks, in chunk
\* order, each existing or not
VideoChunkLists ==
    UNION {{[i \in 1..Len(names) |->
                [name |-> names[i], exists |-> ex[i], content |-> ChunkVideo(names[i])]]
            : ex \in [1..Len(names) -> BOOLEAN]}
           : names \in ChunkPositions}

MergeVideoChunksCall ==
    /\ stage = "PIPELINE"
    /\ \E video_chunks \in VideoChunkLists, render_ok \in BOOLEAN :
        LET r == _merge_video_chunks(video_chunks, render_ok)
        IN  /\ this_call' = [made |-> TRUE, method |-> "_merge_video_chunks",
                             video_chunks |-> video_chunks,
                             render_ok |-> render_ok, success |-> r.success,
                             output |-> r.output, raised |-> r.raised,
                             concatenated |-> r.concatenated]
            /\ calls' = [calls EXCEPT !.merge = @ + (IF r.concatenated THEN 1 ELSE 0)]
    /\ PipelineCallReturns
    /\ UNCHANGED run_vars

\* the options handed to _enhance_video: every setting of the three toggles,
\* with and without a music file
EnhancementOptions ==
    {[GenerationOptions EXCEPT !.add_subtitles = s, !.add_transitions = t,
                               !.add_background_music = m,
                               !.background_music_path = p]
     : s \in BOOLEAN, t \in BOOLEAN, m \in BOOLEAN, p \in {"None", "music.mp3"}}

\* the merged video "out.mp4" of chunks 1 and 2
MergedPath == <<>>

MergedFile == MergedVideo(<<ChunkVideo(1), ChunkVideo(2)>>)

EnhanceVideoCall ==
    /\ stage = "PIPELINE"
    /\ \E opts \in EnhancementOptions :
        /\ options' = opts
        /\ \E subtitles_ok \in BOOLEAN, transitions_ok \in BOOLEAN,
              music_ok \in BOOLEAN :
            LET ok == [e \in {"subtitled", "transitions", "music"} |->
                          CASE e = "subtitled" -> subtitles_ok
                            [] e = "transitions" -> transitions_ok
                            [] e = "music" -> music_ok]
                r == _enhance_video(MergedPath, MergedPath :> MergedFile, opts, ok)
            IN  /\ backends' = [backends EXCEPT !.subtitles_ok = subtitles_ok,
                                                !.transitions_ok = transitions_ok,
                                                !.music_ok = music_ok]
                /\ this_call' = [made |-> TRUE, method |-> "_enhance_video",
                                 video_path |-> MergedPath,
                                 returned |-> r.enhanced_path,
                                 files |-> r.files, invoked |-> r.invoked]
    /\ PipelineCallReturns
    /\ UNCHANGED <<calls, stats, temp_dir>>

\* the chunk lists handed to _create_video_chunks: chunk i has one scene
\* with a text and a duration of its own
ChunkLists ==
    {[i \in 1..n |-> [scenes |-> <<SceneOf(i, 2)>>, total_duration |-> 2]]
     : n \in 1..MaxVideoChunks}

\* audio_files as _generate_audio_for_chunks returns it: the files of the
\* chunks whose synthesis succeeded, in chunk order
AudioFileLists(n) ==
    {[k \in 1..Len(s) |-> [name |-> s[k], exists |-> TRUE]]
     : s \in {t \in ChunkPositions : \A k \in 1..Len(t) : t[k] <= n}}

\* image_files as generate_from_script passes it: [] when images are not
\* generated, else one list per chunk with the image of its scene
ImageFileLists(n) ==
    {<<>>, [i \in 1..n |-> <<[name |-> <<i, 1>>, exists |-> TRUE]>>]}

CreateVideoChunksCall ==
    /\ stage = "PIPELINE"
    /\ \E chs \in ChunkLists, has_fps \in BOOLEAN :
       \E audio \in AudioFileLists(Len(chs)),
          image_files \in ImageFileLists(Len(chs)),
          failing \in SUBSET (1..Len(chs)) :
        LET r == _create_video_chunks(chs, audio, image_files, has_fps, failing)
        IN  /\ this_call' = [made |-> TRUE, method |-> "_create_video_chunks",
                             chunks |-> chs, audio_files |-> audio,
                             image_files |-> image_files, has_fps |-> has_fps,
                             failing |-> failing, raised |-> r.raised,
                             video_chunks |-> r.video_chunks,
                             built |-> r.built]
            /\ calls' = [calls EXCEPT !.assemble = @ + Len(r.built)]
    /\ PipelineCallReturns
    /\ UNCHANGED run_vars

\* what a direct call of a statistics method leaves alone; further calls of
\* them may follow
StatisticsCallReturns ==
    /\ stage' = "STATISTICS"
    /\ n_calls' = n_calls + 1
    /\ prev_call' = this_call
    /\ UNCHANGED <<config, engine_ok, tts_cache, script_text, max_chunk_duration,
                   scenes, chunks, audio_files, failed_stage, error, result,
                   calls, fallbacks, pipeline, pipeline_load, options, backends,
                   temp_dir>>

\* the generation times handed to _update_statistics, in seconds
GenerationTimes == {0, 3}

UpdateStatisticsCall ==
    /\ stage \in {"PIPELINE", "STATISTICS"}
    /\ n_calls < MaxStatisticsCalls
    /\ \E chs \in ChunkLists, generation_time \in GenerationTimes :
        /\ stats' = _update_statistics(stats, chs, generation_time)
        /\ this_call' = [made |-> TRUE, method |-> "_update_statistics",
                         chunks |-> chs, generation_time |-> generation_time]
    /\ StatisticsCallReturns

ResetStatisticsCall ==
    /\ stage \in {"PIPELINE", "STATISTICS"}
    /\ n_calls < MaxStatisticsCalls
    /\ stats' = reset_statistics
    /\ this_call' = [made |-> TRUE, method |-> "reset_statistics"]
    /\ StatisticsCallReturns

\* a word of n characters
WordOf(n) == [k \in 1..n |-> "a"]

\* the word lengths of the scene texts: short words, and words about as
\* long as a caption line
WordLengths == {1, 20, 39, 40, 41}

\* the total length of n words joined by single spaces
RECURSIVE JoinedLength(_, _)
JoinedLength(ls, n) ==
    IF n = 0 THEN 0 ELSE JoinedLength(ls, n - 1) + ls[n] + (IF n > 1 THEN 1 ELSE 0)

\* the scene texts handed to _split_text_for_subtitles: up to MaxWords
\* words separated by single spaces, as _clean_script leaves a text, of up
\* to MaxSubtitleTextLen characters in all
SubtitleTexts ==
    UNION {{JoinWords([i \in 1..n |-> WordOf(ls[i])])
            : ls \in {l \in [1..n -> WordLengths] : JoinedLength(l, n) <= MaxSubtitleTextLen}}
           : n \in 0..MaxWords}

SplitTextForSubtitlesCall ==
    /\ stage = "PIPELINE"
    /\ \E text \in SubtitleTexts :
        this_call' = [made |-> TRUE, method |-> "_split_text_for_subtitles",
                      text |-> text,
                      returned |-> _split_text_for_subtitles(text, max_chars)]
    /\ PipelineCallReturns
    /\ UNCHANGED calls
    /\ UNCHANGED run_vars

\* the scene texts of the chunks handed to _generate_subtitles: one short
\* word, two words that do not fit one line, one word that fills a line
CaptionTexts ==
    {WordOf(1), JoinWords(<<WordOf(20), WordOf(20)>>), WordOf(40)}

\* scenes as parse_script builds them: a text with a word, a duration
CaptionScenes ==
    {[text |-> t, duration |-> d, image_prompt |-> t]
     : t \in CaptionTexts, d \in {1, 3}}

CaptionChunks ==
    {[scenes |-> s, total_duration |-> SumDurations(s)]
     : s \in UNION {[1..n -> CaptionScenes] : n \in 1..2}}

\* the chunk lists handed to _generate_subtitles: one or two chunks of one
\* or two scenes
CaptionChunkLists == UNION {[1..n -> CaptionChunks] : n \in 1..2}

GenerateSubtitlesCall ==
    /\ stage = "PIPELINE"
    /\ \E chs \in CaptionChunkLists :
        LET r == _generate_subtitles(chs)
        IN  this_call' = [made |-> TRUE, method |-> "_generate_subtitles",
                          chunks |-> chs, raised |-> r.raised,
                          subtitles |-> r.subtitles]
    /\ PipelineCallReturns
    /\ UNCHANGED calls
    /\ UNCHANGED run_vars

CleanupTempFilesCall ==
    /\ stage = "PIPELINE"
    /\ temp_dir' = _cleanup_temp_files(temp_dir)
    /\ this_call' = [made |-> TRUE, method |-> "_cleanup_temp_files",
                     before |-> temp_dir]
    /\ PipelineCallReturns
    /\ UNCHANGED <<calls, options, backends, stats>>

NextPipeline ==
    \/ CreateSlideshowCall
    \/ CreateVideoChunksCall
    \/ MergeVideoChunksCall
    \/ EnhanceVideoCall
    \/ UpdateStatisticsCall
    \/ ResetStatisticsCall
    \/ CleanupTempFilesCall
    \/ SplitTextForSubtitlesCall
    \/ GenerateSubtitlesCall

SpecPipeline == InitPipeline /\ [][NextPipeline]_vars

----------------------------------------------------------------------------
(* Repeated parse_script calls on one ScriptProcessor                      *)

MaxParseCalls == 3

\* the scripts of the repeated calls: the empty script, the scripts of one
\* character, and two scripts of two words
ReparseTexts == TextsUpTo(1) \cup {<<"a", " ", "a">>, <<"a", "\n", "a">>}

\* the scenes a parse_script call starts from, given the call before it:
\* none.  parse_script and the methods it calls keep paragraphs, scenes and
\* chunks in local variables and assign no attribute of the processor
ScenesKeptOnProcessor(earlier) ==
    IF earlier.made /\ ~earlier.raised THEN earlier.scenes ELSE <<>>

ScenesCarriedOver(earlier) == <<>>

InitReparse ==
    /\ config \in SegmenterConfigs
    /\ engine_ok = [e \in Engines |-> TRUE]
    /\ tts_cache = {}
    /\ script_text = <<>>
    /\ max_chunk_duration = 0
    /\ scenes = <<>>
    /\ chunks = <<>>
    /\ audio_files = <<>>
    /\ stage = "REPARSE"
    /\ failed_stage = "None"
    /\ error = NoError
    /\ result = NoResult
    /\ calls = NoCalls
    /\ fallbacks = fallback_engines
    /\ n_calls = 0
    /\ this_call = NoCall
    /\ prev_call = NoCall
    /\ pipeline = "None"
    /\ pipeline_load = "Loaded"
    /\ options = GenerationOptions
    /\ backends = AllBackendsWork
    /\ stats = ZeroStatistics
    /\ temp_dir = TempDirAtStart

\* one more parse_script call on the same processor; this_call is the latest
\* call and prev_call the first one, so that any calls lie in between
ReparseCall ==
    /\ stage = "REPARSE"
    /\ n_calls < MaxParseCalls
    /\ \E s \in ReparseTexts, d \in ChunkDurationChoices :
        LET raised == ParseScriptRaises(s, config)
            parsed == IF raised THEN <<>>
                      ELSE ScenesCarriedOver(this_call) \o ParseScenes(s, config)
            chunked == IF raised THEN <<>> ELSE _create_chunks(parsed, d)
        IN  /\ script_text' = s
            /\ max_chunk_duration' = d
            /\ scenes' = parsed
            /\ chunks' = chunked
            /\ error' = IF raised
                        THEN [type |-> "ZeroDivisionError",
                              message |-> "division by zero"]
                        ELSE NoError
            /\ this_call' = [made |-> TRUE, text |-> s, max_chunk_duration |-> d,
                             raised |-> raised, scenes |-> parsed,
                             chunks |-> chunked,
                             follows |-> IF this_call.made
                                         THEN <<this_call.text>> ELSE <<>>]
    /\ prev_call' = IF n_calls = 1 THEN this_call ELSE prev_call
    /\ n_calls' = n_calls + 1
    /\ UNCHANGED <<config, engine_ok, tts_cache, audio_files, stage,
                   failed_stage, result, calls, fallbacks, pipeline,
                   pipeline_load>>
    /\ UNCHANGED run_vars

NextReparse == ReparseCall

SpecReparse == InitReparse /\ [][NextReparse]_vars

\* the latest call was made with the script and the max_chunk_duration of
\* the first call
SameArguments ==
    /\ this_call.made /\ prev_call.made
    /\ this_call.text = prev_call.text
    /\ this_call.max_chunk_duration = prev_call.max_chunk_duration

----------------------------------------------------------------------------
(* Properties of the pipeline methods *)

\* a direct call of the method has returned
PipelineCall(method) ==
    /\ stage = "RETURNED"
    /\ this_call.made
    /\ this_call.method = method

\* none of the image files handed over exists
NoValidImage(images) == \A i \in 1..Len(images) : ~images[i].exists

\* C23: create_slideshow returns False and leaves no video chunk whenever no
\* valid image is supplied or the chunk's audio file is missing, with the
\* durations supplied or omitted.
C23_SlideshowNeedsImageAndAudio ==
    (/\ PipelineCall("create_slideshow")
     /\ NoValidImage(this_call.images) \/ ~this_call.audio_exists)
        => /\ ~this_call.success
           /\ this_call.output = NoVideo

\* every file of the list exists
AllExist(files) == \A i \in 1..Len(files) : files[i].exists

\* C24: a single chunk file becomes the base video as it is, without
\* concatenation; two or more chunk files are concatenated in list order,
\* which is chunk order; and a merge that fails is reported as failure (step
\* 5 of generate_from_script then raises and the run returns the failure
\* result).
C24_MergeKeepsChunkOrder ==
    (PipelineCall("_merge_video_chunks") /\ AllExist(this_call.video_chunks)) =>
        LET files == this_call.video_chunks
        IN  /\ Len(files) = 1 =>
                /\ this_call.success
                /\ this_call.output = files[1].content
                /\ calls.merge = 0
            /\ (Len(files) >= 2 /\ this_call.render_ok) =>
                /\ this_call.success
                /\ calls.merge = 1
                /\ this_call.output.exists
                /\ this_call.output.clips = [i \in 1..Len(files) |-> files[i].content]
            /\ (Len(files) # 1 /\ ~this_call.render_ok) =>
                /\ ~this_call.success
                /\ this_call.output = NoVideo
            /\ this_call.raised = NoError

\* the files of chunks 1, 2 and 3 were merged into one video
C24_Witness ==
    /\ PipelineCall("_merge_video_chunks")
    /\ Len(this_call.video_chunks) = 3
    /\ this_call.success
    /\ this_call.output = MergedVideo(<<ChunkVideo(1), ChunkVideo(2), ChunkVideo(3)>>)

\* the names of the stages invoked by the call, in the order of invocation
InvokedStages == [i \in 1..Len(this_call.invoked) |-> this_call.invoked[i].stage]

\* each invoked stage was given the output of the stage invoked before it,
\* the first one the merged video
StagesChained ==
    \A i \in 1..Len(this_call.invoked) :
        this_call.invoked[i].input =
            IF i = 1 THEN this_call.video_path
            ELSE this_call.invoked[i - 1].output

\* the toggle of a stage in the options
Toggle(effect) ==
    CASE effect = "subtitled" -> options.add_subtitles
      [] effect = "transitions" -> options.add_transitions
      [] effect = "music" -> options.add_background_music

\* C25: _enhance_video applies the stages whose toggle is on in the order
\* subtitles, transitions, background music, never invokes a stage whose
\* toggle is off, and gives each stage the output of the last stage that
\* ran before it (the merged video when none ran).
C25_EnabledStagesRunInOrder ==
    PipelineCall("_enhance_video") =>
        /\ InvokedStages = SelectSeq(Stages, Toggle)
        /\ StagesChained

\* C25 as the code has it: the background music stage runs only when its
\* toggle is on and a music file is given; with that, the stages that are
\* to run are invoked in the order subtitles, transitions, background music,
\* no other stage is invoked, and each is given the output of the last stage
\* that ran before it (the merged video when none ran).
C25_EnabledStagesWithMusicFileRunInOrder ==
    PipelineCall("_enhance_video") =>
        /\ InvokedStages =
               SelectSeq(Stages, LAMBDA e : Toggle(e) /\
                   (e = "music" => options.background_music_path # "None"))
        /\ \A i \in 1..Len(InvokedStages) : Toggle(InvokedStages[i])
        /\ StagesChained

\* subtitles off, transitions and music on with a music file: the music
\* stage was given the output of the transitions stage
C25_Witness ==
    /\ PipelineCall("_enhance_video")
    /\ ~options.add_subtitles
    /\ InvokedStages = <<"transitions", "music">>
    /\ this_call.invoked[2].input = <<"transitions">>
    /\ this_call.returned = <<"transitions", "music">>

\* what the file returned by the call holds
ReturnedContent == this_call.files[this_call.returned]

\* the stages of _enhance_video taken alone behave as C26 says: a stage that
\* fails does not keep the later stages from being invoked, and a call in
\* which every invoked stage fails returns a file that holds what the merged
\* video holds
FailedStagesPassThrough ==
    PipelineCall("_enhance_video") =>
        /\ InvokedStages = SelectSeq(Stages, LAMBDA e : StageRuns(e, options))
        /\ (\A e \in {"subtitled", "transitions", "music"} :
                StageRuns(e, options) =>
                    CASE e = "subtitled" -> ~backends.subtitles_ok
                      [] e = "transitions" -> ~backends.transitions_ok
                      [] e = "music" -> ~backends.music_ok)
             => ReturnedContent = MergedFile

\* with image_files empty, as generate_from_script passes it when
\* generate_images is off, _create_video_chunks builds no chunk, whatever
\* audio there is
NoImagesNoVideoChunks ==
    (PipelineCall("_create_video_chunks") /\ this_call.image_files = <<>>) =>
        /\ this_call.built = <<>>
        /\ this_call.video_chunks = <<>>

\* C33: the final video is saved at the output path the caller requested:
\* the path that _enhance_video returns, which generate_from_script puts in
\* the result as output_path, is the output_path it was called with,
\* whichever enhancement stages are enabled
C33_FinalVideoAtRequestedPath ==
    PipelineCall("_enhance_video") => this_call.returned = this_call.video_path

\* C34: in chunk assembly the video chunk built for chunk i uses chunk i's
\* own audio file and chunk i's own scene images, also when the audio of an
\* earlier chunk is missing from audio_files because its synthesis failed
C34_ChunkUsesOwnArtifacts ==
    PipelineCall("_create_video_chunks") =>
        \A k \in 1..Len(this_call.built) :
            LET call == this_call.built[k]
            IN  /\ call.audio = call.chunk
                /\ \A j \in 1..Len(call.images) : call.images[j].name[1] = call.chunk

\* C35: the synthesis cache is write-once per key: no generate_speech call
\* changes the artifact stored under a key that the cache already holds
C35_CacheWriteOnce ==
    [][\A f \in tts_cache : CacheFile(tts_cache', f.key) = f.artifact]_vars

\* C36: during enhancement an intermediate file is deleted as soon as the
\* output of a later stage supersedes it: when a stage is done, and when
\* _enhance_video returns, the directory holds the merged video and the
\* latest output and nothing else; the merged video is never deleted
C36_OnlyMergedAndLatestRemain ==
    PipelineCall("_enhance_video") =>
        /\ DOMAIN this_call.files = {this_call.video_path, this_call.returned}
        /\ \A k \in 1..Len(this_call.invoked) :
            this_call.invoked[k].left
                = {this_call.video_path, this_call.invoked[k].output}

\* the three stages have run: two intermediate files were written and are
\* gone
C36_Witness ==
    /\ PipelineCall("_enhance_video")
    /\ Len(this_call.invoked) = 3
    /\ Cardinality(DOMAIN this_call.files) = 2
    /\ this_call.video_path \in DOMAIN this_call.files

\* C37: for every scene text, each subtitle fragment produced by
\* _split_text_for_subtitles is non-empty and at most 40 characters long
C37_FragmentsNonEmptyAndShort ==
    PipelineCall("_split_text_for_subtitles") =>
        \A k \in 1..Len(this_call.returned) :
            /\ this_call.returned[k] # <<>>
            /\ Len(this_call.returned[k]) <= max_chars

\* the same for the texts whose words have fewer than 40 characters
FragmentsOfShortWords ==
    (/\ PipelineCall("_split_text_for_subtitles")
     /\ \A w \in 1..Len(Words(this_call.text)) :
            Len(Words(this_call.text)[w]) < max_chars) =>
        \A k \in 1..Len(this_call.returned) :
            /\ this_call.returned[k] # <<>>
            /\ Len(this_call.returned[k]) <= max_chars

\* the fragments of scene j of a scene list
Fragments(scene_list, j) == _split_text_for_subtitles(scene_list[j].text, max_chars)

\* the number of captions of the scenes before scene j
RECURSIVE CaptionsBefore(_, _)
CaptionsBefore(scene_list, j) ==
    IF j = 1 THEN 0
    ELSE CaptionsBefore(scene_list, j - 1) + Len(Fragments(scene_list, j - 1))

\* the captions of every scene are its fragments in order, each lasting the
\* scene's duration divided by their number
ScenesDividedEvenly(scene_list, subtitles) ==
    \A j \in 1..Len(scene_list) :
        LET text_chunks == Fragments(scene_list, j)
            share == [num |-> scene_list[j].duration, den |-> Len(text_chunks)]
        IN  \A k \in 1..Len(text_chunks) :
                LET p == CaptionsBefore(scene_list, j) + k
                IN  /\ p <= Len(subtitles)
                    /\ subtitles[p].text = text_chunks[k]
                    /\ FracEq(subtitles[p].end, FracAdd(subtitles[p].start, share))

\* C38: the subtitle timeline is contiguous and ordered across scenes and
\* chunks: the first caption starts at 0, every caption starts exactly where
\* the one before it ends, the captions of a scene divide the scene's
\* duration evenly, and the last caption ends at the sum of all scene
\* durations
C38_SubtitleTimelineContiguous ==
    PipelineCall("_generate_subtitles") =>
        LET subtitles == this_call.subtitles
            scene_list == ConcatScenes(this_call.chunks)
        IN  /\ this_call.raised = NoError
            /\ subtitles # <<>>
            /\ FracEq(subtitles[1].start, Seconds(0))
            /\ \A p \in 2..Len(subtitles) : subtitles[p].start = subtitles[p - 1].end
            /\ \A p \in 1..Len(subtitles) : FracLess(subtitles[p].start, subtitles[p].end)
            /\ ScenesDividedEvenly(scene_list, subtitles)
            /\ FracEq(subtitles[Len(subtitles)].end, Seconds(SumDurations(scene_list)))

\* two chunks of two scenes each, with a scene of one caption and a scene
\* of two, gave six captions or more
C38_Witness ==
    /\ PipelineCall("_generate_subtitles")
    /\ Len(this_call.chunks) = 2
    /\ \A i \in 1..2 : Len(this_call.chunks[i].scenes) = 2
    /\ \E i \in 1..2, j \in 1..2 :
        Len(_split_text_for_subtitles(this_call.chunks[i].scenes[j].text, max_chars)) = 2
    /\ Len(this_call.subtitles) >= 6
    /\ this_call.subtitles[Len(this_call.subtitles)].end.den > 1

----------------------------------------------------------------------------
(* Termination of generate_from_script.  The call runs its statements one  *)
(* after the other in the caller's thread and every backend call returns,  *)
(* so a step that can be taken is taken.                                   *)

FairSpec == Init /\ [][Next]_vars /\ WF_vars(Next)

\* the call has returned a result: the success result in DONE, the failure
\* result in FAILED
Finished ==
    /\ stage \in {"DONE", "FAILED"}
    /\ result # NoResult
    /\ result.success = (stage = "DONE")

\* how far a run has come: the stages in their order, then the except
\* branch, then the end of the call
Rank(s) ==
    CASE s = "EXCEPT" -> Len(StageOrder) + 1
      [] s \in {"FAILED", "RAISED"} -> Len(StageOrder) + 2
      [] OTHER -> Position(s)

\* C40: every invocation of generate_from_script terminates: the run ends
\* in DONE or in FAILED and stays there, with the result it has returned; a
\* result once returned is never replaced by another; and no stage is
\* entered again after the run has left it
C40_RunTerminates ==
    /\ <>[]Finished
    /\ [][result # NoResult => result' = result]_vars
    /\ [][stage' # stage => Rank(stage') > Rank(stage)]_vars

\* a run has ended in FAILED with the failure result of the exception that
\* its first generate_speech call raised
C40_Witness ==
    /\ Finished
    /\ failed_stage = "SYNTHESIZE_AUDIO"
    /\ error.type \in {"KeyError", "TypeError"}
    /\ result = FailureResult(error)
    /\ calls = NoCalls

=============================================================================
